---- MODULE Spec2Model ----
(***************************************************************************)
(* Session store of openclaw_py (sessions/store.py): a JSON file per store *)
(* path, an in-process cache with TTL, a per-path asyncio lock, and the    *)
(* maintenance (prune, cap, rotate) that runs inside save.                 *)
(*                                                                         *)
(* Scheduling.  The functions are coroutines on one asyncio event loop:    *)
(* the code between two awaits runs atomically, file operations run in a   *)
(* thread pool (aiofiles).  Every action below is either the file          *)
(* operation of one await (it reads or writes the disk and the task's      *)
(* locals only) or the synchronous code up to the next await (it reads or  *)
(* writes the cache, the locks and the task's locals only).                *)
(*                                                                         *)
(* Units.  The wall clock `now` is in whole seconds, and so is updated_at  *)
(* (milliseconds in the code): 30 days in milliseconds exceeds the         *)
(* integers TLC computes with.  The cache TTL stays in milliseconds.       *)
(*                                                                         *)
(* Platform.  The model follows the os.name != "nt" branch of save.        *)
(***************************************************************************)
EXTENDS Integers, Sequences, FiniteSets, TLC

\* ---------------------------------------------------------------- bounds
NumTasks == 2
MaxCalls == 3
MaxTicks == 1
MaxExternal == 1
StartClock == 3000000

Tasks == 1..NumTasks
Paths == {"a", "b"}
\* a store path below store path "a": while "a" is a regular file, the parent
\* of this path is not a directory
Below == "a/sessions.json"
AllPaths == Paths \cup {Below}
Keys == {"k1", "k2"}

\* ------------------------------------------------------ program constants
DEFAULT_SESSION_STORE_TTL_MS == 45000
DEFAULT_SESSION_PRUNE_AFTER_MS == 30 * 24 * 60 * 60
DEFAULT_SESSION_MAX_ENTRIES == 500
DEFAULT_SESSION_ROTATE_BYTES == 10 * 1024 * 1024
max_backups == 3

\* ------------------------------------------------------------ option type
None == <<>>
Some(v) == <<v>>
IsSome(o) == o # <<>>
Get(o) == o[1]

\* --------------------------------------------------------------- records
\* SessionEntry: the fields the store reads (updated_at), one ordinary field
\* (label) and the size of its "extra" payload, which decides the file size.
SessionEntry(sid, upd, lab, xb) ==
    [session_id |-> sid, updated_at |-> upd, label |-> lab, extra_bytes |-> xb]

RecFresh == SessionEntry("s1", StartClock, "none", 0)
RecStale == SessionEntry("s2", 0, "none", 0)
RecHuge == SessionEntry("s3", StartClock, "none", DEFAULT_SESSION_ROTATE_BYTES)

EmptyStore == [k \in {} |-> RecFresh]

\* the dict passed to save: a stale entry and a fresh one
Stores == { [k \in Keys |-> IF k = "k1" THEN RecStale ELSE RecFresh] }

\* the same, and a dict whose file is large enough to be rotated by the next save
LargeStores == Stores \cup { [k \in {"k2"} |-> RecHuge] }

\* ----------------------------------------------------------- file content
\* A file's text, by what json parsing makes of it: "empty", "garbage"
\* (not JSON), "array" (JSON, not an object) or "object", whose values are a
\* valid record ("entry"), a dict that SessionEntry rejects ("baddict") or a
\* value that is no dict ("scalar").
RawEntry(r) == [t |-> "entry", rec |-> r]
RawBadDict == [t |-> "baddict", rec |-> RecFresh]
RawScalar == [t |-> "scalar", rec |-> RecFresh]

NoEntries == [k \in {} |-> RawScalar]
Text(kind) == [kind |-> kind, entries |-> NoEntries]
Object(entries) == [kind |-> "object", entries |-> entries]

\* json.dumps of {key: entry.model_dump(exclude_none=True)}
json_dumps(store) == Object([k \in DOMAIN store |-> RawEntry(store[k])])

\* the contents another writer may leave at a store path
ExternalContents ==
    { Text("empty"), Text("garbage"), Text("array"),
      Object([k \in {"k1", "k2", "k3"} |->
                 CASE k = "k1" -> RawEntry(RecHuge)
                   [] k = "k2" -> RawBadDict
                   [] OTHER -> RawScalar]) }

RawLen(raw) ==
    CASE raw.t = "entry" -> 100 + raw.rec.extra_bytes
      [] raw.t = "baddict" -> 20
      [] OTHER -> 4

RECURSIVE SumLen(_, _)
SumLen(entries, D) ==
    IF D = {} THEN 0
    ELSE LET k == CHOOSE x \in D : TRUE
         IN RawLen(entries[k]) + SumLen(entries, D \ {k})

\* st_size of a file with this content
st_size(content) ==
    CASE content.kind = "empty" -> 0
      [] content.kind = "garbage" -> 7
      [] content.kind = "array" -> 2
      [] OTHER -> 2 + SumLen(content.entries, DOMAIN content.entries)

\* safe_parse_json: the parsed value, or "none" when the text is not JSON.
safe_parse_json(content) ==
    IF content.kind \in {"empty", "garbage"} THEN Text("none") ELSE content

\* SessionEntry(**value) raises on a dict that fails validation
validates(raw) == raw.t = "entry"

\* load_session_store, lines 137-146: the records of a file's text
parse_store(content) ==
    LET parsed == safe_parse_json(content)
    IN IF parsed.kind = "object"
       THEN LET good == {k \in DOMAIN parsed.entries :
                            /\ parsed.entries[k].t # "scalar"
                            /\ validates(parsed.entries[k])}
            IN [k \in good |-> parsed.entries[k].rec]
       ELSE EmptyStore

\* ------------------------------------------------------------ maintenance
\* prune_stale_entries, lines 213-214: max_age_ms is an option; Python's
\* `max_age_ms or DEFAULT` takes the default for None and for 0
prune_cutoff_ms(max_age_ms, t_now) ==
    LET max_age == IF IsSome(max_age_ms) /\ Get(max_age_ms) # 0
                   THEN Get(max_age_ms) ELSE DEFAULT_SESSION_PRUNE_AFTER_MS
    IN t_now - max_age

\* prune_stale_entries: the entries that survive
prune_stale_entries(store, max_age_ms, t_now) ==
    LET cutoff_ms == prune_cutoff_ms(max_age_ms, t_now)
        keep == {k \in DOMAIN store : ~(store[k].updated_at < cutoff_ms)}
    IN [k \in keep |-> store[k]]

\* cap_entry_count, line 249: `max_entries or DEFAULT`
cap_max_count(max_entries) ==
    IF IsSome(max_entries) /\ Get(max_entries) # 0
    THEN Get(max_entries) ELSE DEFAULT_SESSION_MAX_ENTRIES

\* cap_entry_count: the max_count most recently updated entries
cap_entry_count(store, max_entries) ==
    LET max_count == cap_max_count(max_entries)
        keys == DOMAIN store
    IN IF Cardinality(keys) <= max_count THEN store
       ELSE LET kept == CHOOSE S \in SUBSET keys :
                            /\ Cardinality(S) = max_count
                            /\ \A k \in S, j \in keys \ S :
                                   store[k].updated_at >= store[j].updated_at
            IN [k \in kept |-> store[k]]

\* rotate_session_file, lines 320-333: the backups kept after the clean-up
RECURSIVE newest(_, _)
newest(backups, n) ==
    IF n = 0 \/ backups = {} THEN {}
    ELSE LET top == CHOOSE b \in backups : \A c \in backups : c <= b
         IN {top} \cup newest(backups \ {top}, n - 1)

\* ------------------------------------------------------------------ state
VARIABLES
    now,          \* time.time(), whole seconds
    env_ttl,      \* os.environ["OPENCLAW_SESSION_CACHE_TTL_MS"], "" when unset
    ext_writes,   \* writes to store files made outside the store so far
    calls,        \* calls of load, save and update made so far
    disk,         \* path -> [data: option of the file's content, ver]
    intent,       \* path -> the content the last complete write put there
    baks,         \* path -> timestamps of the <name>.bak.<timestamp> files
    cache,        \* _SESSION_STORE_CACHE: path -> option of cache entry
    locks,        \* _STORE_LOCKS: lock key -> locked
    tasks,        \* task -> the coroutine's position and locals
    completed,    \* path -> version written by the last save that returned
    rotated       \* path -> number of rotations so far

vars == <<now, env_ttl, ext_writes, calls, disk, intent, baks, cache, locks, tasks,
          completed, rotated>>

EnvChoices == {"", "500", "0", "-1"}

\* int(env_value); ValueError for anything else
int_of(s) ==
    CASE s = "500" -> Some(500)
      [] s = "0" -> Some(0)
      [] s = "-1" -> Some(0 - 1)
      [] OTHER -> None

_get_session_store_ttl_ms ==
    IF env_ttl # "" /\ IsSome(int_of(env_ttl))
    THEN Get(int_of(env_ttl)) ELSE DEFAULT_SESSION_STORE_TTL_MS

\* mutant of _is_session_store_cache_enabled: a TTL of zero enables the cache
_is_session_store_cache_enabled_at_zero == _get_session_store_ttl_ms >= 0

_is_session_store_cache_enabled == _get_session_store_ttl_ms > 0

\* mutant of _is_session_store_cache_valid: an entry never expires
_is_session_store_cache_valid_forever(entry) == entry.loaded_at <= now

\* (now - entry.loaded_at) <= ttl_ms / 1000.0
_is_session_store_cache_valid(entry) ==
    (now - entry.loaded_at) * 1000 <= _get_session_store_ttl_ms

_invalidate_session_store_cache(c, store_path) ==
    [c EXCEPT ![store_path] = None]

\* aiofiles.os.stat(path) fails with an OSError that is no FileNotFoundError
\* (NotADirectoryError) when a component of the path is a regular file
stat_raises(store_path) == store_path = Below /\ IsSome(disk["a"].data)

\* _get_file_mtime_ms: None for a missing file (FileNotFoundError); any other
\* error of the stat is raised to the caller, see stat_raises.  Every write
\* of a path gives the file a modification time of its own (its version).
_get_file_mtime_ms(store_path) ==
    IF IsSome(disk[store_path].data) THEN Some(disk[store_path].ver) ELSE None

\* _SessionStoreCacheEntry.  With the object's fields go its identity (the
\* task that made it) and where its records come from: the content read and
\* the version of the path that held it.
_SessionStoreCacheEntry(store, mtime, from, ver, t) ==
    [store |-> store, loaded_at |-> now, mtime_ms |-> mtime,
     from |-> from, ver |-> ver, id |-> t]

\* mutant of deep_copy: dict(store), a new dict of the same record objects
shallow_copy(store) == [store |-> store, shares |-> "records"]

\* {k: SessionEntry(**v.model_dump()) for k, v in store.items()}: a new dict
\* of new records, sharing nothing with the cache entry
deep_copy(store) == [store |-> store, shares |-> "none"]

\* mutant of _get_store_lock: one lock for every store path
_get_store_lock_shared(store_path) == "*"

\* _get_store_lock: the key of the lock of a store path
_get_store_lock(store_path) == store_path

lock_table(key) == IF key \in DOMAIN locks THEN locks ELSE locks @@ (key :> FALSE)

IdleTask ==
    [pc |-> "idle", op |-> "none", path |-> "a",
     skip_cache |-> FALSE, skip_maintenance |-> FALSE,
     store |-> EmptyStore, mutator |-> None, cached |-> None,
     current_mtime |-> None, mtime_ms |-> None, tmp |-> None,
     result |-> None, alias |-> 0, mutated |-> FALSE, input |-> None,
     timestamp_ms |-> 0,
     \* what the checks below need to remember of the call:
     src |-> "none", seen |-> None, seen_ver |-> 0, result_ver |-> 0,
     after_ver |-> 0, start_exists |-> FALSE, start_rot |-> 0,
     start_now |-> 0, start_ver |-> 0, start_cache |-> None, wrote_ver |-> 0]

Init ==
    /\ now = StartClock
    /\ env_ttl \in EnvChoices
    /\ ext_writes = 0
    /\ calls = 0
    /\ disk = [p \in AllPaths |-> [data |-> None, ver |-> 0]]
    /\ intent = [p \in AllPaths |-> None]
    /\ baks = [p \in AllPaths |-> {}]
    /\ cache = [p \in AllPaths |-> None]
    /\ locks = [k \in {} |-> FALSE]
    /\ tasks = [t \in Tasks |-> IdleTask]
    /\ completed = [p \in AllPaths |-> 0]
    /\ rotated = [p \in AllPaths |-> 0]

\* a task makes its calls one after the other; of the tasks that have made
\* none yet, the first one goes first
CanCall(t) ==
    /\ calls < MaxCalls
    /\ tasks[t].pc \in {"idle", "done", "raised"}
    /\ \A u \in Tasks : u < t => tasks[u].pc # "idle"

SetTask(t, tk) == tasks' = [tasks EXCEPT ![t] = tk]

put(store, key, rec) ==
    [k \in DOMAIN store \cup {key} |-> IF k = key THEN rec ELSE store[k]]

\* ------------------------------------------------------ load_session_store
\* lines 116-122: up to the first await.  A usable cache entry sends the
\* load to the stat that checks it, anything else to the read from disk.
load_entry(tk, store_path, skip_cache) ==
    LET base == [tk EXCEPT !.path = store_path, !.skip_cache = skip_cache,
                           !.after_ver = completed[store_path],
                           !.start_exists = IsSome(disk[store_path].data),
                           !.start_rot = rotated[store_path],
                           !.start_now = now,
                           !.start_ver = disk[store_path].ver,
                           !.start_cache = cache[store_path]]
        cached == cache[store_path]
    IN IF /\ ~skip_cache
          /\ _is_session_store_cache_enabled
          /\ IsSome(cached)
          /\ _is_session_store_cache_valid(Get(cached))
       THEN [base EXCEPT !.pc = "load_stat_cached", !.cached = cached]
       ELSE [base EXCEPT !.pc = "load_stat"]

load_session_store(t, store_path, skip_cache) ==
    /\ CanCall(t)
    /\ calls' = calls + 1
    /\ SetTask(t, load_entry([IdleTask EXCEPT !.op = "load"], store_path, skip_cache))
    /\ UNCHANGED <<now, env_ttl, ext_writes, disk, intent, baks, cache, locks,
                   completed, rotated>>

\* line 123: current_mtime = await _get_file_mtime_ms(store_path); the
\* statement is outside the try, an error of the stat leaves the call
load_stat_cached(t) ==
    /\ tasks[t].pc = "load_stat_cached"
    /\ IF stat_raises(tasks[t].path)
       THEN SetTask(t, [tasks[t] EXCEPT !.pc = "raised"])
       ELSE SetTask(t, [tasks[t] EXCEPT !.pc = "load_compare",
                            !.current_mtime = _get_file_mtime_ms(tasks[t].path)])
    /\ UNCHANGED <<now, env_ttl, ext_writes, calls, disk, intent, baks, cache, locks,
                   completed, rotated>>

\* lines 124-127: return the copy of the cached store, or drop the entry
load_compare(t) ==
    LET tk == tasks[t]
        cached == Get(tk.cached)
    IN /\ tk.pc = "load_compare"
       /\ IF tk.current_mtime = cached.mtime_ms
          THEN /\ SetTask(t, [tk EXCEPT !.pc = "done",
                                  !.result = Some(deep_copy(cached.store)),
                                  !.alias = cached.id,
                                  !.src = "cache",
                                  !.result_ver = cached.ver])
               /\ UNCHANGED cache
          ELSE /\ SetTask(t, [tk EXCEPT !.pc = "load_stat"])
               /\ cache' = _invalidate_session_store_cache(cache, tk.path)
       /\ UNCHANGED <<now, env_ttl, ext_writes, calls, disk, intent, baks, locks,
                      completed, rotated>>

\* line 131: mtime_ms = await _get_file_mtime_ms(store_path); outside the
\* try as well
load_stat(t) ==
    /\ tasks[t].pc = "load_stat"
    /\ IF stat_raises(tasks[t].path)
       THEN SetTask(t, [tasks[t] EXCEPT !.pc = "raised"])
       ELSE SetTask(t, [tasks[t] EXCEPT !.pc = "load_read",
                            !.mtime_ms = _get_file_mtime_ms(tasks[t].path)])
    /\ UNCHANGED <<now, env_ttl, ext_writes, calls, disk, intent, baks, cache, locks,
                   completed, rotated>>

\* lines 133-146 and 149-154: open, read and parse.  A file is replaced by
\* rename only, so what is read is the content the path had at the open.
load_read(t) ==
    LET tk == tasks[t]
        file == disk[tk.path]
    IN /\ tk.pc = "load_read"
       /\ IF IsSome(file.data)
          THEN SetTask(t, [tk EXCEPT !.pc = "load_stat2",
                               !.store = parse_store(Get(file.data)),
                               !.src = "file",
                               !.seen = intent[tk.path],
                               !.seen_ver = file.ver])
          ELSE SetTask(t, [tk EXCEPT !.pc = "load_finish",
                               !.store = EmptyStore,
                               !.src = "missing",
                               !.seen_ver = file.ver])
       /\ UNCHANGED <<now, env_ttl, ext_writes, calls, disk, intent, baks, cache, locks,
                      completed, rotated>>

\* line 148: mtime_ms = await _get_file_mtime_ms(store_path) or mtime_ms;
\* inside the try: an error of this stat is swallowed at lines 152-154
load_stat2(t) ==
    LET tk == tasks[t]
        again == _get_file_mtime_ms(tk.path)
    IN /\ tk.pc = "load_stat2"
       /\ SetTask(t, [tk EXCEPT !.pc = "load_finish",
                          !.mtime_ms = IF ~stat_raises(tk.path) /\ IsSome(again)
                                       THEN again ELSE tk.mtime_ms])
       /\ UNCHANGED <<now, env_ttl, ext_writes, calls, disk, intent, baks, cache, locks,
                      completed, rotated>>

\* lines 156-163: fill the cache, return a copy.  Inside update_session_store
\* (lines 457-459) the copy goes to the mutator and then to the save.
load_finish(t) ==
    LET tk == tasks[t]
        fill == ~tk.skip_cache /\ _is_session_store_cache_enabled
        entry == _SessionStoreCacheEntry(tk.store, tk.mtime_ms, tk.seen, tk.seen_ver, t)
        copy == deep_copy(tk.store)
    IN /\ tk.pc = "load_finish"
       /\ cache' = IF fill THEN [cache EXCEPT ![tk.path] = Some(entry)] ELSE cache
       /\ IF tk.op = "update"
          THEN SetTask(t, [tk EXCEPT !.pc = "save_lock",
                               !.store = put(copy.store, Get(tk.mutator).key,
                                             Get(tk.mutator).rec)])
          ELSE SetTask(t, [tk EXCEPT !.pc = "done",
                               !.result = Some(copy),
                               !.alias = IF fill THEN t ELSE 0,
                               !.result_ver = tk.seen_ver])
       /\ UNCHANGED <<now, env_ttl, ext_writes, calls, disk, intent, baks, locks,
                      completed, rotated>>

\* the caller changes what load returned: it sets an item of the dict
\* ("setitem") or an attribute of one of its records ("setattr").  A cache
\* entry that shared the dict or the record with the result would change too.
caller_mutates(t, key, how) ==
    LET tk == tasks[t]
        res == Get(tk.result)
        changed == IF how = "setitem"
                   THEN put(res.store, key, RecStale)
                   ELSE [res.store EXCEPT ![key].label = "x"]
        entry == Get(cache[tk.path])
        through == /\ IsSome(cache[tk.path])
                   /\ entry.id = tk.alias
                   /\ \/ res.shares = "dict"
                      \/ res.shares = "records" /\ how = "setattr"
    IN /\ tk.pc = "done" /\ tk.op = "load" /\ ~tk.mutated
       /\ how = "setattr" => key \in DOMAIN res.store
       /\ SetTask(t, [tk EXCEPT !.result = Some([res EXCEPT !.store = changed]),
                          !.mutated = TRUE])
       /\ cache' = IF through
                   THEN [cache EXCEPT ![tk.path] = Some([entry EXCEPT !.store = changed])]
                   ELSE cache
       /\ UNCHANGED <<now, env_ttl, ext_writes, calls, disk, intent, baks, locks,
                      completed, rotated>>

\* ------------------------------------------------------ save_session_store
\* lines 376-380: the call, up to the acquire of the path's lock
save_session_store(t, store_path, store, skip_maintenance) ==
    /\ CanCall(t)
    /\ calls' = calls + 1
    /\ SetTask(t, [IdleTask EXCEPT !.op = "save", !.pc = "save_lock",
                       !.path = store_path, !.store = store,
                       !.input = Some(store),
                       !.skip_maintenance = skip_maintenance])
    /\ locks' = lock_table(_get_store_lock(store_path))
    /\ UNCHANGED <<now, env_ttl, ext_writes, disk, intent, baks, cache,
                   completed, rotated>>

\* mutant of acquire: the write section is entered without waiting
acquire_unguarded(key) ==
    /\ locks' = [locks EXCEPT ![key] = TRUE]

\* `async with lock` (asyncio.Lock.acquire): proceeds when the lock is not locked
acquire(key) ==
    /\ ~locks[key]
    /\ locks' = [locks EXCEPT ![key] = TRUE]

\* asyncio.Lock.release
release(key) == locks' = [locks EXCEPT ![key] = FALSE]

\* what the checks need to remember of a save: the file it found at the
\* path when it got the lock
entered(tk) ==
    [tk EXCEPT !.start_ver = disk[tk.path].ver,
               !.start_exists = IsSome(disk[tk.path].data)]

\* mutant of save_enter: the dict is written as it was given
save_enter_unmaintained(t) ==
    LET tk == tasks[t]
    IN /\ tk.pc = "save_lock"
       /\ acquire(_get_store_lock(tk.path))
       /\ cache' = _invalidate_session_store_cache(cache, tk.path)
       /\ SetTask(t, [entered(tk) EXCEPT !.pc = IF tk.skip_maintenance
                                                THEN "write_tmp" ELSE "rotate_stat"])
       /\ UNCHANGED <<now, env_ttl, ext_writes, calls, disk, intent, baks,
                      completed, rotated>>

\* lines 381-388: inside the lock, invalidate the cache, prune and cap
save_enter(t) ==
    LET tk == tasks[t]
    IN /\ tk.pc = "save_lock"
       /\ acquire(_get_store_lock(tk.path))
       /\ cache' = _invalidate_session_store_cache(cache, tk.path)
       /\ IF tk.skip_maintenance
          THEN SetTask(t, [entered(tk) EXCEPT !.pc = "write_tmp"])
          ELSE SetTask(t, [entered(tk) EXCEPT !.pc = "rotate_stat",
                               !.store = cap_entry_count(
                                             prune_stale_entries(tk.store, None, now),
                                             None)])
       /\ UNCHANGED <<now, env_ttl, ext_writes, calls, disk, intent, baks,
                      completed, rotated>>

\* the max_bytes of the call: save calls rotate_session_file(store_path), a
\* caller of its own gives max_bytes or leaves it out (None)
max_bytes_of(tk) == IF tk.op = "rotate" THEN Get(tk.input).max_bytes ELSE None

\* rotate_session_file, line 289: `max_bytes or DEFAULT`
rotate_max_size(max_bytes) ==
    IF IsSome(max_bytes) /\ Get(max_bytes) # 0
    THEN Get(max_bytes) ELSE DEFAULT_SESSION_ROTATE_BYTES

\* `return value` of rotate_session_file: save goes on with the write and
\* drops the value (line 391), a caller of its own gets it
rotate_return(tk, value) ==
    IF tk.op = "rotate"
    THEN [tk EXCEPT !.pc = "done", !.result = Some(value)]
    ELSE [tk EXCEPT !.pc = "write_tmp"]

\* rotate_session_file, lines 288-298: stat, and the size test
rotate_stat(t) ==
    LET tk == tasks[t]
        file == disk[tk.path]
        max_size == rotate_max_size(max_bytes_of(tk))
    IN /\ tk.pc = "rotate_stat"
       /\ SetTask(t, IF IsSome(file.data) /\ st_size(Get(file.data)) > max_size
                     THEN [tk EXCEPT !.pc = "rotate_rename"]
                     ELSE rotate_return(tk, FALSE))
       /\ UNCHANGED <<now, env_ttl, ext_writes, calls, disk, intent, baks, cache, locks,
                      completed, rotated>>

\* rotate_session_file, lines 300-312: rename to <name>.bak.<timestamp>
rotate_rename(t) ==
    LET tk == tasks[t]
        file == disk[tk.path]
    IN /\ tk.pc = "rotate_rename"
       /\ IF IsSome(file.data)
          THEN /\ disk' = [disk EXCEPT ![tk.path] = [data |-> None, ver |-> file.ver + 1]]
               /\ baks' = [baks EXCEPT ![tk.path] = @ \cup {now}]
               /\ rotated' = [rotated EXCEPT ![tk.path] = @ + 1]
               /\ SetTask(t, [tk EXCEPT !.pc = "rotate_cleanup", !.timestamp_ms = now])
          ELSE /\ SetTask(t, rotate_return(tk, FALSE))
               /\ UNCHANGED <<disk, baks, rotated>>
       /\ UNCHANGED <<now, env_ttl, ext_writes, calls, intent, cache, locks, completed>>

\* rotate_session_file, lines 314-339: keep the 3 most recent backups
rotate_cleanup(t) ==
    LET tk == tasks[t]
    IN /\ tk.pc = "rotate_cleanup"
       /\ baks' = [baks EXCEPT ![tk.path] = newest(@, max_backups)]
       /\ SetTask(t, rotate_return(tk, TRUE))
       /\ UNCHANGED <<now, env_ttl, ext_writes, calls, disk, intent, cache, locks,
                      completed, rotated>>

\* lines 394-414: serialize, write the temporary file
write_tmp(t) ==
    LET tk == tasks[t]
    IN /\ tk.pc = "write_tmp"
       /\ SetTask(t, [tk EXCEPT !.pc = "rename", !.tmp = Some(json_dumps(tk.store))])
       /\ UNCHANGED <<now, env_ttl, ext_writes, calls, disk, intent, baks, cache, locks,
                      completed, rotated>>

\* os.rename(tmp_path, store_path): the path now names the temporary file
os_rename(file, tmp) == [data |-> tmp, ver |-> file.ver + 1]

\* line 415: await aiofiles.os.rename(tmp_path, store_path)
rename(t) ==
    LET tk == tasks[t]
        file == disk[tk.path]
    IN /\ tk.pc = "rename"
       /\ disk' = [disk EXCEPT ![tk.path] = os_rename(file, tk.tmp)]
       /\ intent' = [intent EXCEPT ![tk.path] = tk.tmp]
       /\ SetTask(t, [tk EXCEPT !.pc = "chmod", !.tmp = None,
                          !.wrote_ver = file.ver + 1])
       /\ UNCHANGED <<now, env_ttl, ext_writes, calls, baks, cache, locks,
                      completed, rotated>>

\* lines 417-423: chmod 0o600, and the remove of the temporary file, which
\* the rename has already taken away (FileNotFoundError, ignored)
chmod(t) ==
    LET tk == tasks[t]
    IN /\ tk.pc = "chmod"
       /\ SetTask(t, [tk EXCEPT !.pc = "save_exit"])
       /\ UNCHANGED <<now, env_ttl, ext_writes, calls, disk, intent, baks, cache, locks,
                      completed, rotated>>

\* the end of `async with lock` in save_session_store; inside
\* update_session_store (lines 459-460) the end of its `async with` as well
save_exit(t) ==
    LET tk == tasks[t]
    IN /\ tk.pc = "save_exit"
       /\ release(_get_store_lock(tk.path))
       /\ completed' = [completed EXCEPT ![tk.path] = tk.wrote_ver]
       /\ SetTask(t, [tk EXCEPT !.pc = "done",
                          !.src = IF tk.op = "update" THEN "mutator" ELSE tk.src])
       /\ UNCHANGED <<now, env_ttl, ext_writes, calls, disk, intent, baks, cache, rotated>>

\* ------------------------------------------------- save_session_store, I/O errors
\* lines 413-414: aiofiles.open or f.write raises OSError.  The temporary
\* file was not created, or holds a part of the payload.
write_tmp_fails(t) ==
    LET tk == tasks[t]
    IN /\ tk.pc = "write_tmp"
       /\ \E left \in {None, Some(Text("garbage"))} :
              SetTask(t, [tk EXCEPT !.pc = "fail_remove", !.tmp = left,
                               !.src = "OSError"])
       /\ UNCHANGED <<now, env_ttl, ext_writes, calls, disk, intent, baks, cache, locks,
                      completed, rotated>>

\* line 415: aiofiles.os.rename raises OSError; the temporary file stays
rename_fails(t) ==
    LET tk == tasks[t]
    IN /\ tk.pc = "rename"
       /\ SetTask(t, [tk EXCEPT !.pc = "fail_remove", !.src = "OSError"])
       /\ UNCHANGED <<now, env_ttl, ext_writes, calls, disk, intent, baks, cache, locks,
                      completed, rotated>>

\* lines 418-423, the finally: remove the temporary file (FileNotFoundError
\* ignored); the exception goes on
fail_remove(t) ==
    LET tk == tasks[t]
    IN /\ tk.pc = "fail_remove"
       /\ SetTask(t, [tk EXCEPT !.pc = "fail_exit", !.tmp = None])
       /\ UNCHANGED <<now, env_ttl, ext_writes, calls, disk, intent, baks, cache, locks,
                      completed, rotated>>

\* the exception leaves save_session_store: no except clause in lines 381-423
raise_from_save(tk) == [tk EXCEPT !.pc = "raised"]

\* the end of `async with lock` (line 381) on the way out of a failed save
fail_exit(t) ==
    LET tk == tasks[t]
    IN /\ tk.pc = "fail_exit"
       /\ release(_get_store_lock(tk.path))
       /\ SetTask(t, raise_from_save(tk))
       /\ UNCHANGED <<now, env_ttl, ext_writes, calls, disk, intent, baks, cache,
                      completed, rotated>>

\* a step of a save in which an I/O operation fails
FaultStep(t) ==
    \/ write_tmp_fails(t)
    \/ rename_fails(t)
    \/ fail_remove(t)
    \/ fail_exit(t)

\* ---------------------------------------------------- update_session_store
\* lines 451-454: the call, up to the acquire of the path's lock
update_session_store(t, store_path, mutator, skip_maintenance) ==
    /\ CanCall(t)
    /\ calls' = calls + 1
    /\ SetTask(t, [IdleTask EXCEPT !.op = "update", !.pc = "update_lock",
                       !.path = store_path, !.mutator = Some(mutator),
                       !.skip_maintenance = skip_maintenance])
    /\ locks' = lock_table(_get_store_lock(store_path))
    /\ UNCHANGED <<now, env_ttl, ext_writes, disk, intent, baks, cache,
                   completed, rotated>>

\* lines 455-457: inside the lock, the load that bypasses the cache begins
update_enter(t) ==
    LET tk == tasks[t]
    IN /\ tk.pc = "update_lock"
       /\ acquire(_get_store_lock(tk.path))
       /\ SetTask(t, load_entry(tk, tk.path, TRUE))
       /\ UNCHANGED <<now, env_ttl, ext_writes, calls, disk, intent, baks, cache,
                      completed, rotated>>

\* mutant of mutator_raises: the exception leaves the call with the lock held
mutator_raises_keeps_lock(t) ==
    LET tk == tasks[t]
    IN /\ tk.pc = "load_finish"
       /\ tk.op = "update"
       /\ SetTask(t, [tk EXCEPT !.pc = "raised", !.src = "mutator_raised"])
       /\ UNCHANGED <<now, env_ttl, ext_writes, calls, disk, intent, baks, cache, locks,
                      completed, rotated>>

\* lines 455-458: the load inside the lock has returned (it bypassed the
\* cache: nothing is filled) and mutator(store) raises.  No except clause:
\* the exception ends `async with lock` (line 455), which releases the lock,
\* and leaves update_session_store before the save of line 459.
mutator_raises(t) ==
    LET tk == tasks[t]
    IN /\ tk.pc = "load_finish"
       /\ tk.op = "update"
       /\ release(_get_store_lock(tk.path))
       /\ SetTask(t, [tk EXCEPT !.pc = "raised", !.src = "mutator_raised"])
       /\ UNCHANGED <<now, env_ttl, ext_writes, calls, disk, intent, baks, cache,
                      completed, rotated>>

\* ------------------------------------------------------------ environment
\* another writer (a test, an operator) replaces the file at a store path.
\* It does so between the calls of this process: the store assumes one owner
\* process per path and leaves writers that race with it to other means.
external_write_within(limit, store_path, content) ==
    /\ ext_writes < limit
    /\ \A t \in Tasks : tasks[t].pc \in {"idle", "done", "raised"}
    /\ ext_writes' = ext_writes + 1
    /\ disk' = [disk EXCEPT ![store_path] =
                    [data |-> Some(content), ver |-> @.ver + 1]]
    /\ intent' = [intent EXCEPT ![store_path] = Some(content)]
    /\ UNCHANGED <<now, env_ttl, calls, baks, cache, locks, tasks, completed, rotated>>

external_write(store_path, content) ==
    external_write_within(MaxExternal, store_path, content)

\* a second passes
tick_within(limit) ==
    /\ now < StartClock + limit
    /\ now' = now + 1
    /\ UNCHANGED <<env_ttl, ext_writes, calls, disk, intent, baks, cache, locks, tasks,
                   completed, rotated>>

tick == tick_within(MaxTicks)

\* a step of a call in progress
Step(t) ==
    \/ load_stat_cached(t)
    \/ load_compare(t)
    \/ load_stat(t)
    \/ load_read(t)
    \/ load_stat2(t)
    \/ load_finish(t)
    \/ save_enter(t)
    \/ rotate_stat(t)
    \/ rotate_rename(t)
    \/ rotate_cleanup(t)
    \/ write_tmp(t)
    \/ rename(t)
    \/ chmod(t)
    \/ save_exit(t)
    \/ update_enter(t)

\* a step of a save or update in progress
WriterStep(t) ==
    \/ load_stat(t)
    \/ load_read(t)
    \/ load_stat2(t)
    \/ load_finish(t)
    \/ save_enter(t)
    \/ rotate_stat(t)
    \/ rotate_rename(t)
    \/ rotate_cleanup(t)
    \/ write_tmp(t)
    \/ rename(t)
    \/ chmod(t)
    \/ save_exit(t)
    \/ update_enter(t)

\* the mutator of the concurrency test: task t inserts a key of its own
Mutators == [t \in Tasks |-> [key |-> IF t = 1 THEN "k1" ELSE "k2", rec |-> RecFresh]]
mutator_of(t) == Mutators[t]

Load(t, p) == \E skip \in BOOLEAN : load_session_store(t, p, skip)
Save(t, p) == \E s \in Stores, skip \in BOOLEAN : save_session_store(t, p, s, skip)
SaveLarge(t, p) ==
    \E s \in LargeStores, skip \in BOOLEAN : save_session_store(t, p, s, skip)
Update(t, p) == update_session_store(t, p, mutator_of(t), FALSE)

\* Spec: every operation, against one store path
Next ==
    \/ \E t \in Tasks : Load(t, "a")
    \/ \E t \in Tasks : Load(t, Below)
    \/ \E t \in Tasks : Save(t, "a")
    \/ \E t \in Tasks : Update(t, "a")
    \/ \E t \in Tasks : Step(t)
    \/ \E t \in Tasks, how \in {"setitem", "setattr"} : caller_mutates(t, "k1", how)
    \/ \E c \in ExternalContents : external_write("a", c)
    \/ tick

Spec == Init /\ [][Next]_vars

\* SpecPaths: the writers (save, update), against every store path
NextPaths ==
    \/ \E t \in Tasks, p \in Paths : SaveLarge(t, p)
    \/ \E t \in Tasks, p \in Paths : Update(t, p)
    \/ \E t \in Tasks : WriterStep(t)

SpecPaths == Init /\ [][NextPaths]_vars

\* SpecFaults: the writers against one store path, with I/O errors
NextFaults ==
    \/ \E t \in Tasks : SaveLarge(t, "a")
    \/ \E t \in Tasks : Update(t, "a")
    \/ \E t \in Tasks : WriterStep(t)
    \/ \E t \in Tasks : FaultStep(t)

SpecFaults == Init /\ [][NextFaults]_vars

\* ================================================================ routing
\* Strings are sequences of one-character strings, so that str.strip,
\* str.lower and the regular expressions of session_key.py act on them as
\* they do in the code.
LowerLetters ==
    <<"a", "b", "c", "d", "e", "f", "g", "h", "i", "j", "k", "l", "m",
      "n", "o", "p", "q", "r", "s", "t", "u", "v", "w", "x", "y", "z">>

UpperLetters ==
    <<"A", "B", "C", "D", "E", "F", "G", "H", "I", "J", "K", "L", "M",
      "N", "O", "P", "Q", "R", "S", "T", "U", "V", "W", "X", "Y", "Z">>

DigitChars == {"0", "1", "2", "3", "4", "5", "6", "7", "8", "9"}

Whitespace == {" ", "\t", "\n"}

Range(seq) == { seq[i] : i \in 1..Len(seq) }

\* str.lower, one character
lower_char(c) ==
    IF c \in Range(UpperLetters)
    THEN LowerLetters[CHOOSE i \in 1..Len(UpperLetters) : UpperLetters[i] = c]
    ELSE c

RECURSIVE lower(_)
lower(s) == IF s = <<>> THEN <<>> ELSE <<lower_char(Head(s))>> \o lower(Tail(s))

RECURSIVE lstrip(_)
lstrip(s) == IF s # <<>> /\ Head(s) \in Whitespace THEN lstrip(Tail(s)) ELSE s

RECURSIVE rstrip(_)
rstrip(s) ==
    IF s # <<>> /\ s[Len(s)] \in Whitespace
    THEN rstrip(SubSeq(s, 1, Len(s) - 1))
    ELSE s

\* str.strip
strip(s) == rstrip(lstrip(s))

\* "a:b:c" from <<a, b, c>>
RECURSIVE join(_)
join(parts) ==
    IF Len(parts) = 0 THEN <<>>
    ELSE IF Len(parts) = 1 THEN parts[1]
    ELSE parts[1] \o <<":">> \o join(Tail(parts))

\* Python values of the configuration and of the input: None, a str, and
\* the place of a key that a mapping does not have
PyNone == [t |-> "None", s |-> <<>>]
PyStr(s) == [t |-> "str", s |-> s]
KeyAbsent == [t |-> "absent", s |-> <<>>]

\* bool(value)
truthy(v) ==
    CASE v.t = "None" -> FALSE
      [] v.t = "absent" -> FALSE
      [] v.t = "str" -> v.s # <<>>
      [] v.t = "dict" -> \E k \in DOMAIN v.f : v.f[k].t # "absent"
      [] OTHER -> TRUE

\* (value or "")
or_empty(v) == IF truthy(v) THEN v.s ELSE <<>>

\* ------------------------------------------------------------ session_key.py
DEFAULT_AGENT_ID == <<"m", "a", "i", "n">>
DEFAULT_MAIN_KEY == <<"m", "a", "i", "n">>
DEFAULT_ACCOUNT_ID == <<"d", "e", "f", "a", "u", "l", "t">>
MaxIdLen == 64

\* characters outside ASCII that re.IGNORECASE takes for an ASCII letter
\* and str.lower leaves as they are: U+017F, the long s, written here by
\* its code point
CaseFoldsToAscii == {"U+017F"}

\* [a-z0-9], re.IGNORECASE
alnum_ignorecase(c) ==
    \/ lower_char(c) \in Range(LowerLetters) \cup DigitChars
    \/ c \in CaseFoldsToAscii

\* VALID_ID_RE.match(s)
VALID_ID_RE(s) ==
    /\ s # <<>>
    /\ alnum_ignorecase(s[1])
    /\ alnum_ignorecase(s[Len(s)])
    /\ \A i \in 1..Len(s) : alnum_ignorecase(s[i]) \/ s[i] \in {"_", "-"}

\* [^a-z0-9_-]
invalid_char(c) == c \notin Range(LowerLetters) \cup DigitChars \cup {"_", "-"}

\* INVALID_CHARS_RE.sub("-", s): every run of invalid characters becomes one "-"
RECURSIVE INVALID_CHARS_RE_sub(_)
INVALID_CHARS_RE_sub(s) ==
    IF s = <<>> THEN <<>>
    ELSE IF ~invalid_char(Head(s)) THEN <<Head(s)>> \o INVALID_CHARS_RE_sub(Tail(s))
    ELSE IF Len(s) > 1 /\ invalid_char(s[2]) THEN INVALID_CHARS_RE_sub(Tail(s))
    ELSE <<"-">> \o INVALID_CHARS_RE_sub(Tail(s))

RECURSIVE LEADING_DASH_RE_sub(_)
LEADING_DASH_RE_sub(s) ==
    IF s # <<>> /\ Head(s) = "-" THEN LEADING_DASH_RE_sub(Tail(s)) ELSE s

RECURSIVE TRAILING_DASH_RE_sub(_)
TRAILING_DASH_RE_sub(s) ==
    IF s # <<>> /\ s[Len(s)] = "-"
    THEN TRAILING_DASH_RE_sub(SubSeq(s, 1, Len(s) - 1))
    ELSE s

truncate(s, n) == IF Len(s) > n THEN SubSeq(s, 1, n) ELSE s

\* the body that normalize_agent_id and normalize_account_id share
normalize_id_or(value, default) ==
    LET trimmed == strip(or_empty(value)) IN
    IF trimmed = <<>> THEN default
    ELSE IF VALID_ID_RE(trimmed) /\ Len(trimmed) <= MaxIdLen THEN lower(trimmed)
    ELSE LET normalized ==
                 truncate(TRAILING_DASH_RE_sub(LEADING_DASH_RE_sub(
                     INVALID_CHARS_RE_sub(lower(trimmed)))), MaxIdLen)
         IN IF normalized = <<>> THEN default ELSE normalized

normalize_agent_id(value) == normalize_id_or(value, DEFAULT_AGENT_ID)

sanitize_agent_id(value) == normalize_agent_id(value)

normalize_account_id(value) == normalize_id_or(value, DEFAULT_ACCOUNT_ID)

normalize_main_key(value) ==
    LET trimmed == strip(or_empty(value)) IN
    IF trimmed = <<>> THEN DEFAULT_MAIN_KEY ELSE lower(trimmed)

_normalize_token(value) == lower(strip(or_empty(value)))

_normalize_id(value) == strip(or_empty(value))

s_agent == <<"a", "g", "e", "n", "t">>
s_direct == <<"d", "i", "r", "e", "c", "t">>
s_unknown == <<"u", "n", "k", "n", "o", "w", "n">>

build_agent_main_session_key(agent_id, main_key) ==
    join(<<s_agent, normalize_agent_id(agent_id), normalize_main_key(main_key)>>)

\* identity_links: the canonical names in the mapping's order, each with the
\* list of its aliases
RECURSIVE first_canonical(_, _)
first_canonical(identity_links, candidates) ==
    IF identity_links = <<>> THEN PyNone
    ELSE LET link == Head(identity_links)
             canonical_name == strip(link.canonical)
         IN IF /\ canonical_name # <<>>
               /\ \E i \in 1..Len(link.ids) :
                      LET normalized == _normalize_token(PyStr(link.ids[i]))
                      IN normalized # <<>> /\ normalized \in candidates
            THEN PyStr(canonical_name)
            ELSE first_canonical(Tail(identity_links), candidates)

\* mutant of _resolve_linked_peer_id: the channel:peer_id form is not looked up
_resolve_linked_peer_id_unscoped(identity_links, channel, peer_id) ==
    LET peer_id_trimmed == strip(peer_id)
        raw_candidate == _normalize_token(PyStr(peer_id_trimmed))
        candidates == IF raw_candidate # <<>> THEN {raw_candidate} ELSE {}
    IN IF identity_links = <<>> \/ peer_id_trimmed = <<>> \/ candidates = {}
       THEN PyNone
       ELSE first_canonical(identity_links, candidates)

_resolve_linked_peer_id(identity_links, channel, peer_id) ==
    LET peer_id_trimmed == strip(peer_id)
        raw_candidate == _normalize_token(PyStr(peer_id_trimmed))
        channel_normalized == _normalize_token(PyStr(channel))
        scoped_candidate ==
            _normalize_token(PyStr(channel_normalized \o <<":">> \o peer_id_trimmed))
        candidates ==
            (IF raw_candidate # <<>> THEN {raw_candidate} ELSE {})
            \cup (IF channel_normalized # <<>> /\ scoped_candidate # <<>>
                  THEN {scoped_candidate} ELSE {})
    IN IF identity_links = <<>> \/ peer_id_trimmed = <<>> \/ candidates = {}
       THEN PyNone
       ELSE first_canonical(identity_links, candidates)

or_unknown(s) == IF s = <<>> THEN s_unknown ELSE s

\* mutant of build_agent_peer_session_key: the account id is left out of the
\* per-account-channel-peer key
build_agent_peer_session_key_no_account(agent_id, main_key, channel, account_id, peer_kind, peer_id, identity_links, dm_scope) ==
    LET normalized_peer_kind == IF truthy(peer_kind) THEN peer_kind.s ELSE s_direct
        channel_lower == or_unknown(lower(strip(channel)))
        agent == normalize_agent_id(PyStr(agent_id))
    IN IF normalized_peer_kind = s_direct
       THEN LET stripped == strip(or_empty(peer_id))
                linked_peer_id ==
                    IF dm_scope # "main"
                    THEN _resolve_linked_peer_id(identity_links, channel, stripped)
                    ELSE PyNone
                peer_id_str == IF truthy(linked_peer_id) THEN linked_peer_id.s ELSE stripped
                peer_id_lower == lower(peer_id_str)
            IN IF dm_scope = "per-account-channel-peer" /\ peer_id_lower # <<>>
               THEN join(<<s_agent, agent, channel_lower, s_direct, peer_id_lower>>)
               ELSE IF dm_scope = "per-channel-peer" /\ peer_id_lower # <<>>
               THEN join(<<s_agent, agent, channel_lower, s_direct, peer_id_lower>>)
               ELSE IF dm_scope = "per-peer" /\ peer_id_lower # <<>>
               THEN join(<<s_agent, agent, s_direct, peer_id_lower>>)
               ELSE build_agent_main_session_key(PyStr(agent_id), main_key)
       ELSE join(<<s_agent, agent, channel_lower, normalized_peer_kind,
                   lower(or_unknown(strip(or_empty(peer_id))))>>)

build_agent_peer_session_key(agent_id, main_key, channel, account_id, peer_kind, peer_id, identity_links, dm_scope) ==
    LET normalized_peer_kind == IF truthy(peer_kind) THEN peer_kind.s ELSE s_direct
        channel_lower == or_unknown(lower(strip(channel)))
        agent == normalize_agent_id(PyStr(agent_id))
    IN IF normalized_peer_kind = s_direct
       THEN LET stripped == strip(or_empty(peer_id))
                linked_peer_id ==
                    IF dm_scope # "main"
                    THEN _resolve_linked_peer_id(identity_links, channel, stripped)
                    ELSE PyNone
                peer_id_str == IF truthy(linked_peer_id) THEN linked_peer_id.s ELSE stripped
                peer_id_lower == lower(peer_id_str)
            IN IF dm_scope = "per-account-channel-peer" /\ peer_id_lower # <<>>
               THEN join(<<s_agent, agent, channel_lower,
                           normalize_account_id(account_id), s_direct, peer_id_lower>>)
               ELSE IF dm_scope = "per-channel-peer" /\ peer_id_lower # <<>>
               THEN join(<<s_agent, agent, channel_lower, s_direct, peer_id_lower>>)
               ELSE IF dm_scope = "per-peer" /\ peer_id_lower # <<>>
               THEN join(<<s_agent, agent, s_direct, peer_id_lower>>)
               ELSE build_agent_main_session_key(PyStr(agent_id), main_key)
       ELSE join(<<s_agent, agent, channel_lower, normalized_peer_kind,
                   lower(or_unknown(strip(or_empty(peer_id))))>>)

\* resolve_route.py
build_agent_session_key(agent_id, channel, account_id, peer, dm_scope, identity_links) ==
    build_agent_peer_session_key(
        agent_id, PyStr(DEFAULT_MAIN_KEY),
        or_unknown(_normalize_token(PyStr(channel))), account_id,
        IF peer.t = "None" THEN PyStr(s_direct) ELSE PyStr(peer.kind),
        IF peer.t = "None" THEN PyNone ELSE PyStr(_normalize_id(PyStr(peer.id))),
        identity_links, dm_scope)

\* ------------------------------------------------------------ configuration
\* A configuration value is a structured object (every declared field is an
\* attribute, None when not given) or a plain mapping (a key may be absent).
PyBool(b) == [t |-> "bool", b |-> b]
PyObject(fields) == [t |-> "object", f |-> fields]
PyDict(fields) == [t |-> "dict", f |-> fields]

is_true(v) == IF v.t = "bool" THEN v.b ELSE truthy(v)

_get_attr(obj, attr, default) ==
    IF obj.t = "object" THEN obj.f[attr]
    ELSE IF obj.t = "dict"
    THEN (IF obj.f[attr].t = "absent" THEN default ELSE obj.f[attr])
    ELSE default

AgentBindingMatchPeer(repr, kind, id) ==
    [t |-> repr, f |-> [kind |-> kind, id |-> id]]

AgentBindingMatch(repr, channel, account_id, peer, guild_id, team_id) ==
    [t |-> repr, f |-> [channel |-> channel, account_id |-> account_id, peer |-> peer,
                        guild_id |-> guild_id, team_id |-> team_id]]

AgentBinding(repr, agent_id, match) ==
    [t |-> repr, f |-> [agent_id |-> agent_id, match |-> match]]

AgentConfig(repr, id, default) ==
    [t |-> repr, f |-> [id |-> id, default |-> default]]

SessionConfig(dm_scope, identity_links) ==
    [t |-> "object", dm_scope |-> dm_scope, identity_links |-> identity_links]

OpenClawConfig(agents, bindings, session) ==
    [agents |-> agents, bindings |-> bindings, session |-> session]

RoutePeer(kind, id) == [t |-> "RoutePeer", kind |-> kind, id |-> id]

ResolveAgentRouteInput(cfg, channel, account_id, peer, parent_peer, guild_id, team_id) ==
    [cfg |-> cfg, channel |-> channel, account_id |-> account_id, peer |-> peer,
     parent_peer |-> parent_peer, guild_id |-> guild_id, team_id |-> team_id]

ResolvedAgentRoute(agent_id, channel, account_id, session_key, main_session_key, matched_by) ==
    [raised |-> "", agent_id |-> agent_id, channel |-> channel,
     account_id |-> account_id, session_key |-> session_key,
     main_session_key |-> main_session_key, matched_by |-> matched_by]

\* the call ends with an exception instead of a route
Raised(exc) ==
    [raised |-> exc, agent_id |-> <<>>, channel |-> <<>>, account_id |-> <<>>,
     session_key |-> <<>>, main_session_key |-> <<>>, matched_by |-> ""]

\* bindings.py
list_bindings(cfg) == SelectSeq(cfg.bindings, truthy)

\* agent_scope.py
_list_agents_scope(cfg) == SelectSeq(cfg.agents, truthy)

resolve_default_agent_id(cfg) ==
    LET agents == _list_agents_scope(cfg)
        is_default(agent) == is_true(_get_attr(agent, "default", PyNone))
        defaults == SelectSeq(agents, is_default)
        chosen == IF defaults # <<>> THEN defaults[1] ELSE agents[1]
        id == IF chosen.t = "object" THEN chosen.f.id
              ELSE _get_attr(chosen, "id", PyStr(<<>>))
        chosen_id == IF id.t = "str" THEN strip(id.s) ELSE <<>>
    IN IF agents = <<>> THEN DEFAULT_AGENT_ID
       ELSE normalize_agent_id(PyStr(IF chosen_id = <<>> THEN DEFAULT_AGENT_ID
                                     ELSE chosen_id))

\* ------------------------------------------------------------ resolve_route.py
_normalize_account_id_for_matching(value) ==
    LET trimmed == strip(or_empty(value)) IN
    IF trimmed # <<>> THEN trimmed ELSE DEFAULT_ACCOUNT_ID

\* mutant of _matches_account_id: a binding without an account id matches
\* every account
_matches_account_id_any(match, actual) ==
    LET trimmed == strip(or_empty(match)) IN
    IF trimmed = <<>> THEN TRUE
    ELSE IF trimmed = <<"*">> THEN TRUE
    ELSE trimmed = actual

_matches_account_id(match, actual) ==
    LET trimmed == strip(or_empty(match)) IN
    IF trimmed = <<>> THEN actual = DEFAULT_ACCOUNT_ID
    ELSE IF trimmed = <<"*">> THEN TRUE
    ELSE trimmed = actual

_matches_channel(match, channel) ==
    IF ~truthy(match) THEN FALSE
    ELSE LET key == _normalize_token(_get_attr(match, "channel", PyNone))
         IN key # <<>> /\ key = channel

\* "True", "False", or the exception the call ends with: the name
\* peer__get_attr of line 169 is bound nowhere
_matches_peer(match, peer) ==
    IF ~truthy(match) THEN "False"
    ELSE LET peer_match == _get_attr(match, "peer", PyNone)
         IN IF ~truthy(peer_match) \/ peer_match.t # "dict" THEN "False"
            ELSE "NameError"

_matches_guild(match, guild_id) ==
    IF ~truthy(match) THEN FALSE
    ELSE LET match_id == _normalize_id(_get_attr(match, "guild_id", PyNone))
         IN match_id # <<>> /\ match_id = guild_id

_matches_team(match, team_id) ==
    IF ~truthy(match) THEN FALSE
    ELSE LET match_id == _normalize_id(_get_attr(match, "team_id", PyNone))
         IN match_id # <<>> /\ match_id = team_id

_list_agents(cfg) == cfg.agents

\* mutant of _pick_first_existing_agent_id: without an agent list the bound
\* agent is unknown as well
_pick_first_existing_agent_id_strict(cfg, agent_id) ==
    LET trimmed == strip(or_empty(agent_id))
        normalized == normalize_agent_id(PyStr(trimmed))
        agents == _list_agents(cfg)
        agent_id_from_cfg(agent) == strip(_get_attr(agent, "id", PyStr(<<>>)).s)
        found(agent) ==
            /\ truthy(agent)
            /\ agent.t = "dict"
            /\ normalize_agent_id(PyStr(agent_id_from_cfg(agent))) = normalized
        existing == SelectSeq(agents, found)
    IN IF trimmed = <<>> THEN sanitize_agent_id(PyStr(resolve_default_agent_id(cfg)))
       ELSE IF existing # <<>>
       THEN sanitize_agent_id(PyStr(agent_id_from_cfg(existing[1])))
       ELSE sanitize_agent_id(PyStr(resolve_default_agent_id(cfg)))

_pick_first_existing_agent_id(cfg, agent_id) ==
    LET trimmed == strip(or_empty(agent_id))
        normalized == normalize_agent_id(PyStr(trimmed))
        agents == _list_agents(cfg)
        agent_id_from_cfg(agent) == strip(_get_attr(agent, "id", PyStr(<<>>)).s)
        found(agent) ==
            /\ truthy(agent)
            /\ agent.t = "dict"
            /\ normalize_agent_id(PyStr(agent_id_from_cfg(agent))) = normalized
        existing == SelectSeq(agents, found)
    IN IF trimmed = <<>> THEN sanitize_agent_id(PyStr(resolve_default_agent_id(cfg)))
       ELSE IF agents = <<>> THEN sanitize_agent_id(PyStr(trimmed))
       ELSE IF existing # <<>>
       THEN sanitize_agent_id(PyStr(agent_id_from_cfg(existing[1])))
       ELSE sanitize_agent_id(PyStr(resolve_default_agent_id(cfg)))

\* the index of the first element of a loop that ends it, 0 when none does
first_decisive(outcomes) ==
    IF \E i \in DOMAIN outcomes : outcomes[i] # "False"
    THEN CHOOSE i \in DOMAIN outcomes :
             /\ outcomes[i] # "False"
             /\ \A j \in 1..(i - 1) : outcomes[j] = "False"
    ELSE 0

as_outcome(b) == IF b THEN "True" ELSE "False"

\* one pass of the loops of tiers 5 and 6 (lines 415-428, 429-442)
account_tier(binding, wildcard) ==
    LET match == _get_attr(binding, "match", PyNone)
        account_id == _get_attr(match, "account_id", PyStr(<<>>))
    IN IF ~truthy(match) THEN "False"
       ELSE IF account_id.t # "str" THEN "AttributeError"
       ELSE IF (strip(account_id.s) = <<"*">>) # wildcard THEN "False"
       ELSE IF \/ truthy(_get_attr(match, "peer", PyNone))
               \/ truthy(_get_attr(match, "guild_id", PyNone))
               \/ truthy(_get_attr(match, "team_id", PyNone))
       THEN "False"
       ELSE "True"

\* lines 334-339: the normalized input
normalized_peer(peer) ==
    IF peer.t = "None" THEN PyNone
    ELSE RoutePeer(peer.kind, _normalize_id(PyStr(peer.id)))

choose(input, agent_id, matched_by) ==
    LET channel == _normalize_token(PyStr(input.channel))
        account_id == _normalize_account_id_for_matching(input.account_id)
        dm_scope == IF input.cfg.session.t = "None" THEN "main"
                    ELSE input.cfg.session.dm_scope
        identity_links == IF input.cfg.session.t = "None" THEN <<>>
                          ELSE input.cfg.session.identity_links
        resolved_agent_id == _pick_first_existing_agent_id(input.cfg, agent_id)
    IN ResolvedAgentRoute(
           resolved_agent_id, channel, account_id,
           lower(build_agent_session_key(resolved_agent_id, channel, PyStr(account_id),
                                         normalized_peer(input.peer), dm_scope,
                                         identity_links)),
           lower(build_agent_main_session_key(PyStr(resolved_agent_id),
                                              PyStr(DEFAULT_MAIN_KEY))),
           matched_by)

\* lines 348-358: the bindings of the input's channel and account
filtered_bindings(input) ==
    LET channel == _normalize_token(PyStr(input.channel))
        account_id == _normalize_account_id_for_matching(input.account_id)
        keep(binding) ==
            /\ _matches_channel(_get_attr(binding, "match", PyNone), channel)
            /\ _matches_account_id(
                   _get_attr(_get_attr(binding, "match", PyNone), "account_id", PyNone),
                   account_id)
    IN SelectSeq(list_bindings(input.cfg), keep)

Decision(raised, matched_by, agent_id) ==
    [raised |-> raised, matched_by |-> matched_by, agent_id |-> agent_id]

\* lines 385-445: the seven tiers in the order of the code; each loop ends at
\* the first binding that matches or raises.  The decision is the tier that
\* ends the search and the agent id of its binding.
decision(input) ==
    LET peer == normalized_peer(input.peer)
        parent_peer == normalized_peer(input.parent_peer)
        guild_id == IF truthy(input.guild_id) THEN _normalize_id(input.guild_id) ELSE <<>>
        team_id == IF truthy(input.team_id) THEN _normalize_id(input.team_id) ELSE <<>>
        bindings == filtered_bindings(input)
        agent_of(i) == _get_attr(bindings[i], "agent_id", PyStr(<<>>))
        match_of(i) == _get_attr(bindings[i], "match", PyNone)
        t1(i) == _matches_peer(match_of(i), peer)
        t2(i) == _matches_peer(match_of(i), parent_peer)
        t3(i) == as_outcome(_matches_guild(match_of(i), guild_id))
        t4(i) == as_outcome(_matches_team(match_of(i), team_id))
        t5(i) == account_tier(bindings[i], FALSE)
        t6(i) == account_tier(bindings[i], TRUE)
        none == [i \in {} |-> "False"]
        o1 == IF peer.t # "None" THEN [i \in DOMAIN bindings |-> t1(i)] ELSE none
        o2 == IF parent_peer.t # "None" /\ parent_peer.id # <<>>
              THEN [i \in DOMAIN bindings |-> t2(i)] ELSE none
        o3 == IF guild_id # <<>> THEN [i \in DOMAIN bindings |-> t3(i)] ELSE none
        o4 == IF team_id # <<>> THEN [i \in DOMAIN bindings |-> t4(i)] ELSE none
        o5 == [i \in DOMAIN bindings |-> t5(i)]
        o6 == [i \in DOMAIN bindings |-> t6(i)]
        end(outcomes, matched_by) ==
            LET i == first_decisive(outcomes) IN
            IF outcomes[i] = "True" THEN Decision("", matched_by, agent_of(i))
            ELSE Decision(outcomes[i], "", PyNone)
    IN IF first_decisive(o1) # 0 THEN end(o1, "binding.peer")
       ELSE IF first_decisive(o2) # 0 THEN end(o2, "binding.peer.parent")
       ELSE IF first_decisive(o3) # 0 THEN end(o3, "binding.guild")
       ELSE IF first_decisive(o4) # 0 THEN end(o4, "binding.team")
       ELSE IF first_decisive(o5) # 0 THEN end(o5, "binding.account")
       ELSE IF first_decisive(o6) # 0 THEN end(o6, "binding.channel")
       ELSE Decision("", "default", PyStr(resolve_default_agent_id(input.cfg)))

resolve_agent_route(input) ==
    LET d == decision(input) IN
    IF d.raised # "" THEN Raised(d.raised)
    ELSE choose(input, d.agent_id, d.matched_by)

\* ------------------------------------------------------------ routing inputs
s_telegram == <<"t", "e", "l", "e", "g", "r", "a", "m">>
s_Telegram == <<" ", "T", "e", "l", "e", "G", "r", "a", "m", " ">>
s_discord == <<"d", "i", "s", "c", "o", "r", "d">>
s_star == <<"*">>
s_bot1 == <<"b", "o", "t", "1">>
s_bot1_padded == <<" ", "b", "o", "t", "1", " ">>
s_support == <<"s", "u", "p", "p", "o", "r", "t">>
s_Sales == <<"S", "a", "l", "e", "s">>
s_group == <<"g", "r", "o", "u", "p">>
s_g1 == <<"g", "1">>
s_G1 == <<"G", "1">>
s_T1 == <<"T", "1">>

PeerG1(repr) == AgentBindingMatchPeer(repr, PyStr(s_group), PyStr(s_g1))

\* the bindings the configurations are made of
RouteBindings ==
    { \* channel wildcard, as a structured object and as a mapping
      AgentBinding("object", PyStr(s_support),
          AgentBindingMatch("object", PyStr(s_telegram), PyStr(s_star),
                            PyNone, PyNone, PyNone)),
      AgentBinding("dict", PyStr(s_support),
          AgentBindingMatch("dict", PyStr(s_telegram), PyStr(s_star),
                            KeyAbsent, KeyAbsent, KeyAbsent)),
      \* one account
      AgentBinding("object", PyStr(s_Sales),
          AgentBindingMatch("object", PyStr(s_Telegram), PyStr(s_bot1_padded),
                            PyNone, PyNone, PyNone)),
      \* no account id
      AgentBinding("object", PyStr(s_support),
          AgentBindingMatch("object", PyStr(s_telegram), PyNone,
                            PyNone, PyNone, PyNone)),
      AgentBinding("dict", PyStr(s_Sales),
          AgentBindingMatch("dict", PyStr(s_telegram), KeyAbsent,
                            KeyAbsent, KeyAbsent, KeyAbsent)),
      AgentBinding("object", PyStr(s_Sales),
          AgentBindingMatch("object", PyStr(s_telegram), PyStr(<<>>),
                            PyNone, PyNone, PyNone)),
      \* a peer, a guild, a team
      AgentBinding("object", PyStr(s_Sales),
          AgentBindingMatch("object", PyStr(s_telegram), PyStr(s_star),
                            PeerG1("object"), PyNone, PyNone)),
      AgentBinding("dict", PyStr(s_Sales),
          AgentBindingMatch("dict", PyStr(s_telegram), PyStr(s_star),
                            PeerG1("dict"), KeyAbsent, KeyAbsent)),
      AgentBinding("object", PyStr(s_Sales),
          AgentBindingMatch("object", PyStr(s_telegram), PyStr(s_star),
                            PyNone, PyStr(s_G1), PyNone)),
      AgentBinding("object", PyStr(s_support),
          AgentBindingMatch("object", PyStr(s_telegram), PyStr(s_star),
                            PyNone, PyNone, PyStr(s_T1))),
      \* a guild under one account, a team without an account id
      AgentBinding("object", PyStr(s_Sales),
          AgentBindingMatch("object", PyStr(s_telegram), PyStr(s_bot1),
                            PyNone, PyStr(s_G1), PyNone)),
      AgentBinding("object", PyStr(s_Sales),
          AgentBindingMatch("object", PyStr(s_telegram), PyNone,
                            PyNone, PyNone, PyStr(s_T1))),
      \* another channel
      AgentBinding("object", PyStr(s_Sales),
          AgentBindingMatch("object", PyStr(s_discord), PyStr(s_star),
                            PyNone, PyNone, PyNone)) }

MaxBindings == 2

BindingLists ==
    UNION { [1..n -> RouteBindings] : n \in 0..MaxBindings }

\* no agent list; structured agents; agents as mappings, with and without
\* the bound agents and a default flag
RouteAgentLists ==
    { <<>>,
      << AgentConfig("object", PyStr(DEFAULT_AGENT_ID), PyBool(TRUE)),
         AgentConfig("object", PyStr(s_support), PyNone) >>,
      << AgentConfig("dict", PyStr(DEFAULT_AGENT_ID), PyBool(TRUE)),
         AgentConfig("dict", PyStr(s_support), KeyAbsent) >>,
      << AgentConfig("dict", PyStr(s_Sales), KeyAbsent),
         AgentConfig("dict", PyStr(DEFAULT_AGENT_ID), KeyAbsent) >> }

RouteSessions == { PyNone }

RouteConfigs ==
    { OpenClawConfig(a, b, s) :
          a \in RouteAgentLists, b \in BindingLists, s \in RouteSessions }

RoutePeers == { PyNone, RoutePeer(s_group, s_g1) }

RouteInputs ==
    { ResolveAgentRouteInput(cfg, channel, account_id, peer, parent_peer,
                             guild_id, team_id) :
          cfg \in RouteConfigs,
          channel \in {s_telegram, s_Telegram},
          account_id \in {PyNone, PyStr(s_bot1)},
          peer \in RoutePeers,
          parent_peer \in RoutePeers,
          guild_id \in {PyNone, PyStr(s_G1)},
          team_id \in {PyNone, PyStr(s_T1)} }

\* ------------------------------------------------------------ SpecRoute
\* One caller per input: the task holds the input of its call, and the call
\* is one step, for resolve_agent_route awaits nothing.
InitRoute ==
    /\ now = StartClock
    /\ env_ttl = ""
    /\ ext_writes = 0
    /\ calls = 0
    /\ disk = [p \in AllPaths |-> [data |-> None, ver |-> 0]]
    /\ intent = [p \in AllPaths |-> None]
    /\ baks = [p \in AllPaths |-> {}]
    /\ cache = [p \in AllPaths |-> None]
    /\ locks = [k \in {} |-> FALSE]
    /\ \E i \in RouteInputs :
           tasks = [t \in Tasks |->
                       IF t = 1 THEN [IdleTask EXCEPT !.op = "resolve", !.input = Some(i)]
                       ELSE IdleTask]
    /\ completed = [p \in AllPaths |-> 0]
    /\ rotated = [p \in AllPaths |-> 0]

Resolve(t) ==
    /\ tasks[t].op = "resolve"
    /\ tasks[t].pc = "idle"
    /\ LET route == resolve_agent_route(Get(tasks[t].input))
       IN SetTask(t, [tasks[t] EXCEPT !.pc = IF route.raised = "" THEN "done" ELSE "raised",
                                      !.result = Some(route)])
    /\ UNCHANGED <<now, env_ttl, ext_writes, calls, disk, intent, baks, cache, locks,
                   completed, rotated>>

NextRoute == \E t \in Tasks : Resolve(t)

SpecRoute == InitRoute /\ [][NextRoute]_vars

\* ================================================================ sessions/types.py
\* merge_session_entry, on the fields session_id, updated_at, label,
\* input_tokens and origin of SessionEntry.  A dict is a function on the keys
\* it has; an optional field is None or Some(value).
has_key(data, k) == k \in DOMAIN data

get(data, k, default) == IF has_key(data, k) THEN data[k] ELSE default

\* mutant of SessionOrigin: the alias only
SessionOrigin_by_alias(data) ==
    [from_ |-> get(data, "from", None)]

\* SessionOrigin(**data): the field from_ is given under its alias "from"
\* or, as populate_by_name allows, under its name
SessionOrigin(data) ==
    [from_ |-> IF has_key(data, "from") THEN data["from"] ELSE get(data, "from_", None)]

\* the validation of the field origin: None, or the dict of a SessionOrigin
origin_of(value) == IF value = None THEN None ELSE Some(SessionOrigin(Get(value)))

\* SessionEntry(**data): the declared fields, None where data has no value,
\* and nothing of a key that is no field
new_SessionEntry(data) ==
    [session_id |-> data["session_id"],
     updated_at |-> data["updated_at"],
     label |-> get(data, "label", None),
     input_tokens |-> get(data, "input_tokens", None),
     origin |-> origin_of(get(data, "origin", None))]

\* entry.model_dump(): a dict of the fields by name, nested models as dicts
model_dump(entry) ==
    [session_id |-> entry.session_id,
     updated_at |-> entry.updated_at,
     label |-> entry.label,
     input_tokens |-> entry.input_tokens,
     origin |-> IF entry.origin = None THEN None
                ELSE Some([k \in {"from_"} |-> Get(entry.origin).from_])]

\* mutant of update: the keys that data has keep their values
update_missing(data, patch) ==
    [k \in DOMAIN data \cup DOMAIN patch |-> IF has_key(data, k) THEN data[k] ELSE patch[k]]

\* dict.update
update(data, patch) ==
    [k \in DOMAIN data \cup DOMAIN patch |-> IF has_key(patch, k) THEN patch[k] ELSE data[k]]

without(data, keys) == [k \in DOMAIN data \ keys |-> data[k]]

max(a, b, c) ==
    IF a >= b /\ a >= c THEN a ELSE IF b >= c THEN b ELSE c

\* mutant of merged_session_id: the existing id is not looked at
merged_session_id_fresh(existing, patch, uuid4) ==
    IF get(patch, "session_id", "") # "" THEN patch["session_id"] ELSE uuid4

\* line 119
merged_session_id(existing, patch, uuid4) ==
    IF get(patch, "session_id", "") # "" THEN patch["session_id"]
    ELSE IF existing # None THEN Get(existing).session_id
    ELSE uuid4

\* mutant of merged_updated_at: the time of the merge
merged_updated_at_now(existing, patch, now_ms) == now_ms

\* lines 122-127
merged_updated_at(existing, patch, now_ms) ==
    max(IF existing # None THEN Get(existing).updated_at ELSE 0,
        get(patch, "updated_at", 0),
        now_ms)

\* now_ms is int(time.time() * 1000), uuid4 is str(uuid.uuid4())
merge_session_entry(existing, patch, now_ms, uuid4) ==
    LET session_id == merged_session_id(existing, patch, uuid4)
        updated_at == merged_updated_at(existing, patch, now_ms)
        identity == [k \in {"session_id", "updated_at"} |->
                        IF k = "session_id" THEN session_id ELSE updated_at]
    IN IF existing = None
       THEN new_SessionEntry(update(without(patch, {"session_id", "updated_at"}), identity))
       ELSE new_SessionEntry(update(update(model_dump(Get(existing)), patch), identity))

\* ------------------------------------------------------------ merge inputs
s_updated_at == {1000, 5000, 9000}

Origins == { [k \in {"from"} |-> Some("alice")], [k \in {"from_"} |-> Some("bob")] }

ExistingEntries ==
    [session_id : {"s1"}, updated_at : s_updated_at,
     label : {None, Some("old")}, input_tokens : {Some(50)},
     origin : {None, Some(SessionOrigin([k \in {"from"} |-> Some("carol")]))}]

PatchKeys == {"session_id", "updated_at", "label", "origin", "unknown_key"}

FullPatches ==
    [session_id : {"", "s2"}, updated_at : {1000, 9000},
     label : {None, Some("new")}, origin : {Some(o) : o \in Origins},
     unknown_key : {"x"}]

\* a patch has some of the keys; the key that is no field comes with a label
Patches ==
    { p \in { without(f, drop) : f \in FullPatches, drop \in SUBSET PatchKeys } :
          has_key(p, "unknown_key") => DOMAIN p = {"label", "unknown_key"} }

EmptyPatch == [k \in {} |-> None]

Uuids == {"u1", "u2"}

\* uuid.uuid4() is called when neither the patch nor a record gives the id
uuids_for(existing, patch) ==
    IF get(patch, "session_id", "") = "" /\ existing = None THEN Uuids ELSE {"unused"}

MaxMerges == 2

\* time.time(), whole seconds; the wall clock may be set back
MergeClocks == {4, 6}

now_ms == now * 1000

\* ------------------------------------------------------------ SpecMerge
\* One caller keeps a record and merges one patch after the other into it;
\* the task holds the last call's arguments (input) and the record (result).
InitMerge ==
    /\ now \in MergeClocks
    /\ env_ttl = ""
    /\ ext_writes = 0
    /\ calls = 0
    /\ disk = [p \in AllPaths |-> [data |-> None, ver |-> 0]]
    /\ intent = [p \in AllPaths |-> None]
    /\ baks = [p \in AllPaths |-> {}]
    /\ cache = [p \in AllPaths |-> None]
    /\ locks = [k \in {} |-> FALSE]
    /\ \E existing \in {None} \cup {Some(e) : e \in ExistingEntries} :
           tasks = [t \in Tasks |->
                       IF t = 1 THEN [IdleTask EXCEPT !.op = "merge", !.result = existing]
                       ELSE IdleTask]
    /\ completed = [p \in AllPaths |-> 0]
    /\ rotated = [p \in AllPaths |-> 0]

Merge(t, patch, uuid4) ==
    /\ tasks[t].op = "merge"
    /\ calls < MaxMerges
    /\ uuid4 \in uuids_for(tasks[t].result, patch)
    /\ calls' = calls + 1
    /\ SetTask(t, [tasks[t] EXCEPT
           !.pc = "done",
           !.input = Some([existing |-> tasks[t].result, patch |-> patch,
                           now_ms |-> now_ms, uuid4 |-> uuid4]),
           !.result = Some(merge_session_entry(tasks[t].result, patch, now_ms, uuid4))])
    /\ UNCHANGED <<now, env_ttl, ext_writes, disk, intent, baks, cache, locks,
                   completed, rotated>>

clock_set(c) ==
    /\ now # c
    /\ now' = c
    /\ UNCHANGED <<env_ttl, ext_writes, calls, disk, intent, baks, cache, locks, tasks,
                   completed, rotated>>

NextMerge ==
    \/ \E t \in Tasks, patch \in Patches, uuid4 \in Uuids \cup {"unused"} :
           Merge(t, patch, uuid4)
    \/ \E c \in MergeClocks : clock_set(c)

SpecMerge == InitMerge /\ [][NextMerge]_vars

\* ============================================================ maintenance
\* prune_stale_entries and cap_entry_count on their own.  A Python dict keeps
\* its keys in insertion order, and sorted() is stable: the dict is a
\* sequence of keys (order) with the record of each key (at).
PyDictOf(order, at) == [order |-> order, at |-> at]

len(d) == Len(d.order)

\* the keys of a sequence that are in S, in the sequence's order
select(order, S) == SelectSeq(order, LAMBDA k : k \in S)

\* `for key in keys: del store[key]`
del_keys(d, keys) ==
    LET left == Range(d.order) \ keys
    IN PyDictOf(select(d.order, left), [k \in left |-> d.at[k]])

\* prune_stale_entries, lines 216-221
keys_to_delete(d, max_age_ms, t_now) ==
    {k \in Range(d.order) : d.at[k].updated_at < prune_cutoff_ms(max_age_ms, t_now)}

\* prune_stale_entries on a dict: the dict afterwards and the value returned
prune_stale_entries_call(d, max_age_ms, t_now) ==
    LET keys == keys_to_delete(d, max_age_ms, t_now)
    IN [store |-> del_keys(d, keys), returned |-> Cardinality(keys)]

\* list.insert that keeps a list sorted by updated_at, descending, and a new
\* key behind the keys of the same updated_at (sorted() is stable, with
\* reverse=True as well)
RECURSIVE insert_desc(_, _, _)
insert_desc(sorted, k, at) ==
    IF sorted = <<>> THEN <<k>>
    ELSE IF at[Head(sorted)].updated_at >= at[k].updated_at
         THEN <<Head(sorted)>> \o insert_desc(Tail(sorted), k, at)
         ELSE <<k>> \o sorted

\* sorted(keys, key=lambda k: store[k].updated_at, reverse=True)
RECURSIVE sorted_keys(_, _)
sorted_keys(keys, at) ==
    IF keys = <<>> THEN <<>>
    ELSE insert_desc(sorted_keys(SubSeq(keys, 1, Len(keys) - 1), at), keys[Len(keys)], at)

\* cap_entry_count on a dict: the dict afterwards and the value returned
cap_entry_count_call(d, max_entries) ==
    LET max_count == cap_max_count(max_entries)
        keys == d.order
    IN IF Len(keys) <= max_count THEN [store |-> d, returned |-> 0]
       ELSE LET sorted == sorted_keys(keys, d.at)
                to_remove == SubSeq(sorted, max_count + 1, Len(sorted))
            IN [store |-> del_keys(d, Range(to_remove)), returned |-> Len(to_remove)]

\* ----------------------------------------------------- maintenance inputs
MaintKeys == {"k1", "k2", "k3"}

\* updated_at: one second older than the default age, exactly of the default
\* age, two seconds old, and of this second
MaintTimes ==
    {StartClock - DEFAULT_SESSION_PRUNE_AFTER_MS - 1,
     StartClock - DEFAULT_SESSION_PRUNE_AFTER_MS, StartClock - 2, StartClock}

Orders(S) == {o \in [1..Cardinality(S) -> S] : Range(o) = S}

MaintDicts ==
    { PyDictOf(o, at) : o \in UNION {Orders(S) : S \in SUBSET MaintKeys},
                        at \in [MaintKeys -> {SessionEntry("s", u, "none", 0) : u \in MaintTimes}] }

MaintDict(d) == PyDictOf(d.order, [k \in Range(d.order) |-> d.at[k]])

MaxAges == {None, Some(0), Some(1), Some(2)}
MaxEntries == {None, Some(0), Some(1), Some(2)}

MaxMaint == 2

\* -------------------------------------------------------------- SpecMaint
\* One caller holds a dict (input) and calls prune and cap on it; the task
\* remembers the last call (result) and the call before it (prev).
NoCall == [op |-> "none", arg |-> None, at |-> 0, before |-> PyDictOf(<<>>, EmptyStore),
           after |-> PyDictOf(<<>>, EmptyStore), returned |-> 0,
           prev_op |-> "none", prev_len |-> 0]

InitMaint ==
    /\ now = StartClock
    /\ env_ttl = ""
    /\ ext_writes = 0
    /\ calls = 0
    /\ disk = [p \in AllPaths |-> [data |-> None, ver |-> 0]]
    /\ intent = [p \in AllPaths |-> None]
    /\ baks = [p \in AllPaths |-> {}]
    /\ cache = [p \in AllPaths |-> None]
    /\ locks = [k \in {} |-> FALSE]
    /\ \E d \in MaintDicts :
           tasks = [t \in Tasks |->
                       IF t = 1 THEN [IdleTask EXCEPT !.op = "maintain",
                                                      !.input = Some(MaintDict(d)),
                                                      !.result = Some(NoCall)]
                       ELSE IdleTask]
    /\ completed = [p \in AllPaths |-> 0]
    /\ rotated = [p \in AllPaths |-> 0]

Called(t, op, arg, call) ==
    LET tk == tasks[t]
        last == Get(tk.result)
    IN /\ tk.op = "maintain"
       /\ calls < MaxMaint
       /\ calls' = calls + 1
       /\ SetTask(t, [tk EXCEPT
              !.pc = "done",
              !.input = Some(call.store),
              !.result = Some([op |-> op, arg |-> arg, at |-> now,
                               before |-> Get(tk.input), after |-> call.store,
                               returned |-> call.returned,
                               prev_op |-> last.op, prev_len |-> len(last.before)])])
       /\ UNCHANGED <<now, env_ttl, ext_writes, disk, intent, baks, cache, locks,
                      completed, rotated>>

Prune(t, max_age_ms) ==
    /\ tasks[t].op = "maintain"
    /\ Called(t, "prune", max_age_ms,
              prune_stale_entries_call(Get(tasks[t].input), max_age_ms, now))

Cap(t, max_entries) ==
    /\ tasks[t].op = "maintain"
    /\ Called(t, "cap", max_entries, cap_entry_count_call(Get(tasks[t].input), max_entries))

NextMaint ==
    \/ \E t \in Tasks, max_age_ms \in MaxAges : Prune(t, max_age_ms)
    \/ \E t \in Tasks, max_entries \in MaxEntries : Cap(t, max_entries)
    \/ tick

SpecMaint == InitMaint /\ [][NextMaint]_vars

\* ================================================================ rotation
\* rotate_session_file called on its own, as the tests do (test_store.py:378-429).
MaxRotations == 4

\* files of 7 bytes and of more than 10 MB
RotateContents == {Text("garbage"), Object([k \in {"k2"} |-> RawEntry(RecHuge)])}

MaxBytes == {None, Some(0), Some(6), Some(7)}

\* one caller makes its calls one after the other
CanRotate(t) ==
    /\ calls < MaxRotations
    /\ tasks[t].op = "rotate"
    /\ tasks[t].pc \in {"idle", "done"}

InitRotate ==
    /\ now = StartClock
    /\ env_ttl = ""
    /\ ext_writes = 0
    /\ calls = 0
    /\ disk = [p \in AllPaths |-> [data |-> None, ver |-> 0]]
    /\ intent = [p \in AllPaths |-> None]
    /\ baks = [p \in AllPaths |-> {}]
    /\ cache = [p \in AllPaths |-> None]
    /\ locks = [k \in {} |-> FALSE]
    /\ tasks = [t \in Tasks |-> IF t = 1 THEN [IdleTask EXCEPT !.op = "rotate"]
                                 ELSE IdleTask]
    /\ completed = [p \in AllPaths |-> 0]
    /\ rotated = [p \in AllPaths |-> 0]

\* lines 273-289: the call; with the arguments the task remembers the file
\* and the backups it found
rotate_session_file(t, store_path, max_bytes) ==
    /\ CanRotate(t)
    /\ calls' = calls + 1
    /\ SetTask(t, [IdleTask EXCEPT
           !.op = "rotate", !.pc = "rotate_stat", !.path = store_path,
           !.input = Some([max_bytes |-> max_bytes, file |-> disk[store_path],
                           baks |-> baks[store_path]])])
    /\ UNCHANGED <<now, env_ttl, ext_writes, disk, intent, baks, cache, locks,
                   completed, rotated>>

RotateStep(t) ==
    \/ rotate_stat(t)
    \/ rotate_rename(t)
    \/ rotate_cleanup(t)

NextRotate ==
    \/ \E t \in Tasks, max_bytes \in MaxBytes : rotate_session_file(t, "a", max_bytes)
    \/ \E t \in Tasks : RotateStep(t)
    \/ \E c \in RotateContents : external_write_within(MaxRotations, "a", c)
    \/ tick_within(MaxRotations)

SpecRotate == InitRotate /\ [][NextRotate]_vars

\* ============================================================ session keys
\* str.split(":")
RECURSIVE split(_)
split(s) ==
    IF \A i \in 1..Len(s) : s[i] # ":" THEN <<s>>
    ELSE LET i == CHOOSE j \in 1..Len(s) : s[j] = ":" /\ \A h \in 1..(j - 1) : s[h] # ":"
         IN <<SubSeq(s, 1, i - 1)>> \o split(SubSeq(s, i + 1, Len(s)))

ParsedAgentSessionKey(agent_id, rest) == [t |-> "parsed", agent_id |-> agent_id, rest |-> rest]

\* key_utils.py, parse_agent_session_key
parse_agent_session_key(session_key) ==
    LET raw == strip(or_empty(session_key))
        parts == SelectSeq(split(raw), LAMBDA p : p # <<>>)
    IN IF raw = <<>> \/ Len(parts) < 3 THEN PyNone
       ELSE IF parts[1] # s_agent THEN PyNone
       ELSE LET agent_id == strip(parts[2])
                rest == join(SubSeq(parts, 3, Len(parts)))
            IN IF agent_id = <<>> \/ rest = <<>> THEN PyNone
               ELSE ParsedAgentSessionKey(agent_id, rest)

\* str.startswith
startswith(s, prefix) == Len(s) >= Len(prefix) /\ SubSeq(s, 1, Len(prefix)) = prefix

\* mutant of classify_session_key_shape: the prefix is looked for in the
\* case it is written in
classify_session_key_shape_case_sensitive(session_key) ==
    LET raw == strip(or_empty(session_key))
    IN IF raw = <<>> THEN "missing"
       ELSE IF parse_agent_session_key(PyStr(raw)).t = "parsed" THEN "agent"
       ELSE IF startswith(raw, s_agent \o <<":">>) THEN "malformed_agent"
       ELSE "legacy_or_alias"

\* session_key.py, lines 178-204
classify_session_key_shape(session_key) ==
    LET raw == strip(or_empty(session_key))
    IN IF raw = <<>> THEN "missing"
       ELSE IF parse_agent_session_key(PyStr(raw)).t = "parsed" THEN "agent"
       ELSE IF startswith(lower(raw), s_agent \o <<":">>) THEN "malformed_agent"
       ELSE "legacy_or_alias"

\* ------------------------------------------------------------- key inputs
s_main == <<"m", "a", "i", "n">>
s_work == <<" ", "W", "o", "r", "k", " ">>
s_colon == <<":">>
s_a_b == <<" ", "a", " ", "B", " ">>
s_empty == <<>>
s_42 == <<"4", "2">>
s_U7 == <<" ", "U", "7", " ">>
s_alice == <<"a", "l", "i", "c", "e">>
s_Alice == <<" ", "A", "l", "i", "c", "e", " ">>
s_bob == <<"b", "o", "b">>
s_telegram_42 == s_telegram \o <<":">> \o s_42
s_DISCORD_u7 == <<"D", "I", "S", "C", "O", "R", "D", ":", "u", "7">>

IdentityLink(canonical, ids) == [canonical |-> canonical, ids |-> ids]

\* session.identity_links: none; {"alice": ["telegram:42", "DISCORD:u7"]};
\* {" Alice ": ["42"], "bob": ["42", " U7 "]}
IdentityLinks ==
    { <<>>,
      <<IdentityLink(s_alice, <<s_telegram_42, s_DISCORD_u7>>)>>,
      <<IdentityLink(s_Alice, <<s_42>>), IdentityLink(s_bob, <<s_42, s_U7>>)>> }

DmScopes == {"main", "per-peer", "per-channel-peer", "per-account-channel-peer"}

KeyAgentIds == {s_main, s_Sales, s_a_b}
KeyMainKeys == {PyNone, PyStr(s_work), PyStr(s_colon)}
KeyChannels == {s_telegram, s_Telegram, s_discord, s_empty}
KeyAccountIds == {PyNone, PyStr(s_bot1_padded)}
KeyPeerKinds == {PyNone, PyStr(s_empty), PyStr(s_direct), PyStr(s_group)}
KeyPeerIds == {PyNone, PyStr(s_empty), PyStr(s_42), PyStr(s_U7)}

MainArgs == [fn : {"main"}, agent_id : KeyAgentIds, main_key : KeyMainKeys]

PeerArgs ==
    [fn : {"peer"}, agent_id : KeyAgentIds, main_key : KeyMainKeys, channel : KeyChannels,
     account_id : KeyAccountIds, peer_kind : KeyPeerKinds, peer_id : KeyPeerIds,
     identity_links : IdentityLinks, dm_scope : DmScopes]

\* a second message of the same agent and configuration
OtherIdentities == [channel : KeyChannels, peer_id : {PyStr(s_42), PyStr(s_U7)}]

repeat(c, n) == [i \in 1..n |-> c]

\* agent ids: every string of up to three of these characters, and two
\* strings of more than 64 characters
IdChars == {"a", "B", "7", "-", "_", " ", "@"}
MaxShortId == 3

LongIds ==
    { repeat("a", MaxIdLen - 1) \o <<"-", "b">>, repeat("a", MaxIdLen) \o <<"@", "b">> }

AgentIdStrings ==
    UNION {[1..n -> IdChars] : n \in 0..MaxShortId} \cup LongIds

NormalizeArgs == [fn : {"normalize"}, value : AgentIdStrings]

\* --------------------------------------------------------------- SpecKeys
\* One caller builds a session key or normalizes an agent id; the task holds
\* the arguments of the call (input), the value returned (result) and, for a
\* second message, the call before it.
KeyCall(args, returned, before) == [args |-> args, returned |-> returned, before |-> before]

InitKeys ==
    /\ now = StartClock
    /\ env_ttl = ""
    /\ ext_writes = 0
    /\ calls = 0
    /\ disk = [p \in AllPaths |-> [data |-> None, ver |-> 0]]
    /\ intent = [p \in AllPaths |-> None]
    /\ baks = [p \in AllPaths |-> {}]
    /\ cache = [p \in AllPaths |-> None]
    /\ locks = [k \in {} |-> FALSE]
    /\ \E a \in MainArgs \cup PeerArgs \cup NormalizeArgs :
           tasks = [t \in Tasks |->
                       IF t = 1 THEN [IdleTask EXCEPT !.op = "keys", !.input = Some(a)]
                       ELSE IdleTask]
    /\ completed = [p \in AllPaths |-> 0]
    /\ rotated = [p \in AllPaths |-> 0]

Returned(t, args, returned, before) ==
    /\ SetTask(t, [tasks[t] EXCEPT !.pc = "done", !.input = Some(args),
                                   !.result = Some(KeyCall(args, returned, before))])
    /\ UNCHANGED <<now, env_ttl, ext_writes, calls, disk, intent, baks, cache, locks,
                   completed, rotated>>

\* the task is about to call the function `fn` with the arguments it holds
Calls(t, fn) ==
    /\ tasks[t].op = "keys"
    /\ tasks[t].pc = "idle"
    /\ Get(tasks[t].input).fn = fn

peer_key(a) ==
    build_agent_peer_session_key(a.agent_id, a.main_key, a.channel, a.account_id,
                                 a.peer_kind, a.peer_id, a.identity_links, a.dm_scope)

BuildMain(t) ==
    /\ Calls(t, "main")
    /\ LET a == Get(tasks[t].input)
       IN Returned(t, a, build_agent_main_session_key(PyStr(a.agent_id), a.main_key), None)

BuildPeer(t) ==
    /\ Calls(t, "peer")
    /\ Returned(t, Get(tasks[t].input), peer_key(Get(tasks[t].input)), None)

\* the next message: the same agent and configuration, another identity
BuildPeerAgain(t, other) ==
    /\ tasks[t].op = "keys"
    /\ tasks[t].pc = "done"
    /\ Get(tasks[t].input).fn = "peer"
    /\ Get(tasks[t].result).before = None
    /\ LET last == Get(tasks[t].result)
           a == [last.args EXCEPT !.channel = other.channel, !.peer_id = other.peer_id]
       IN Returned(t, a, peer_key(a), Some([args |-> last.args, returned |-> last.returned]))

Normalize(t) ==
    /\ Calls(t, "normalize")
    /\ LET a == Get(tasks[t].input)
       IN Returned(t, a, normalize_agent_id(PyStr(a.value)), None)

NextKeys ==
    \/ \E t \in Tasks : BuildMain(t)
    \/ \E t \in Tasks : BuildPeer(t)
    \/ \E t \in Tasks, other \in OtherIdentities : BuildPeerAgain(t, other)
    \/ \E t \in Tasks : Normalize(t)

SpecKeys == InitKeys /\ [][NextKeys]_vars

\* ================================================================ claims
InFlight(t) == tasks[t].pc \notin {"idle", "done", "raised"}

\* between the acquire and the release of the path's lock
InWriteSection(t) ==
    \/ /\ tasks[t].op = "save"
       /\ tasks[t].pc \notin {"idle", "done", "raised", "save_lock"}
    \/ /\ tasks[t].op = "update"
       /\ tasks[t].pc \notin {"idle", "done", "raised", "update_lock"}

WaitsForLock(t) ==
    /\ tasks[t].pc \in {"save_lock", "update_lock"}
    /\ locks[_get_store_lock(tasks[t].path)]

\* the records a store path holds on disk
persisted(store_path) ==
    IF IsSome(disk[store_path].data)
    THEN parse_store(Get(disk[store_path].data)) ELSE EmptyStore

OnlyUpdates ==
    /\ ext_writes = 0
    /\ calls = Cardinality({t \in Tasks : tasks[t].op = "update"})

\* C1: when the calls made are updates of one store path, each inserting a
\* key of its own, and no call can take a step any more, the file holds the
\* key of every one of them (no lost update).
C1_NoLostUpdate ==
    (OnlyUpdates /\ ~ENABLED (\E t \in Tasks : Step(t)))
        => \A t \in Tasks :
               tasks[t].op = "update"
                   => Get(tasks[t].mutator).key \in DOMAIN persisted(tasks[t].path)

\* C2: an update in progress is never stuck: as long as one has not
\* returned, some call in progress can take a step (so that, under fair
\* scheduling, the update completes).
C2_UpdateCompletes ==
    (\E t \in Tasks : tasks[t].op = "update" /\ InFlight(t))
        => ENABLED (\E t \in Tasks : Step(t))

\* C3: at most one save or update is inside its write section on a path.
C3_OneWriter ==
    \A p \in Paths :
        Cardinality({t \in Tasks : InWriteSection(t) /\ tasks[t].path = p}) <= 1

\* one call writes the file while another waits for the path's lock
C3_Witness ==
    \E t, u \in Tasks :
        /\ tasks[t].path = tasks[u].path
        /\ tasks[t].pc = "rename"
        /\ WaitsForLock(u)

\* a load that has returned, whose result the caller has not changed
Loaded(t) == tasks[t].op = "load" /\ tasks[t].pc = "done" /\ ~tasks[t].mutated

\* the records of the content a load read from the path
ReadRecords(t) ==
    IF tasks[t].src = "file" THEN parse_store(Get(tasks[t].seen)) ELSE EmptyStore

\* C4: a load with caching enabled that starts after a save of the path has
\* returned gives data at least as new as that save's (never older, cached
\* data).  Every write gives the file a modification time of its own.
C4_LoadAfterSave ==
    \A t \in Tasks :
        (Loaded(t) /\ ~tasks[t].skip_cache /\ _is_session_store_cache_enabled)
            => tasks[t].result_ver >= tasks[t].after_ver

\* C5 as claimed: a load that bypasses the cache, begun when the path held a
\* file, returns the records of a complete content that a write put at the
\* path: it never finds the path without a file.
C5_AtomicReplace ==
    \A t \in Tasks :
        (Loaded(t) /\ tasks[t].skip_cache /\ tasks[t].start_exists)
            => /\ tasks[t].src = "file"
               /\ Get(tasks[t].result).store = ReadRecords(t)

\* What does hold of such a load: it never returns a part of a payload.  It
\* returns the records of a complete content that a write put at the path,
\* or, when it finds no file, the empty map; and it finds no file at a path
\* that held one only after a save with maintenance has rotated the file
\* away (and before that save has renamed the new one in).
NoPartialRead ==
    \A t \in Tasks :
        (Loaded(t) /\ tasks[t].skip_cache)
            => \/ /\ tasks[t].src = "file"
                  /\ Get(tasks[t].result).store = ReadRecords(t)
               \/ /\ tasks[t].src = "missing"
                  /\ Get(tasks[t].result).store = EmptyStore
                  /\ \/ ~tasks[t].start_exists
                     \/ rotated[tasks[t].path] > tasks[t].start_rot

\* C6: saves and updates of different store paths never wait for each
\* other: a call waits for a lock only while a call on its own path is
\* inside its write section, and a save that has the lock of its path can
\* take its next step whatever the calls on the other paths are doing.
C6_PathsIndependent ==
    \A t \in Tasks :
        /\ WaitsForLock(t)
               => \E u \in Tasks :
                      /\ u # t \/ tasks[t].pc = "save_lock"
                      /\ InWriteSection(u)
                      /\ tasks[u].path = tasks[t].path
        /\ (tasks[t].op = "save" /\ InFlight(t) /\ ~WaitsForLock(t))
               => ENABLED WriterStep(t)

\* a save of one path and a save of another are in their write sections at
\* the same time
C6_Witness ==
    \E t, u \in Tasks :
        /\ tasks[t].path = "a" /\ tasks[u].path = "b"
        /\ InWriteSection(t) /\ tasks[t].pc = "rename"
        /\ InWriteSection(u) /\ tasks[u].pc = "rename"

\* the condition under which the claim has load answer from the cache, on
\* what the load found: the entry when it began, the clock then, and the
\* modification time its stat returned
ServedFromCache(t) ==
    LET tk == tasks[t]
        entry == Get(tk.start_cache)
    IN /\ ~tk.skip_cache
       /\ _get_session_store_ttl_ms > 0
       /\ IsSome(tk.start_cache)
       /\ (tk.start_now - entry.loaded_at) * 1000 <= _get_session_store_ttl_ms
       /\ tk.current_mtime = entry.mtime_ms

\* the result of a load: it returns the cached records, without reading the file,
\* exactly when skip_cache is false, the TTL is positive, an entry exists and
\* is within the TTL, and the file's modification time is the entry's;
\* otherwise it returns what it reads from the file.
C7_Result ==
    \A t \in Tasks :
        Loaded(t) =>
            /\ tasks[t].src = "cache" <=> ServedFromCache(t)
            /\ Get(tasks[t].result).store =
                   IF ServedFromCache(t)
                   THEN Get(tasks[t].start_cache).store ELSE ReadRecords(t)

\* the cache after a load: a load that read the file replaces the entry by the
\* records it read and the modification time it found, when caching is
\* enabled and skip_cache is false; otherwise it leaves the cache alone.
C7_Refresh ==
    \A t \in Tasks :
        (tasks[t].op = "load" /\ tasks[t].pc = "load_finish" /\ tasks'[t].pc = "done")
            => IF ~tasks[t].skip_cache /\ _get_session_store_ttl_ms > 0
               THEN /\ IsSome(cache'[tasks[t].path])
                    /\ Get(cache'[tasks[t].path]).store = Get(tasks'[t].result).store
                    /\ Get(cache'[tasks[t].path]).store = ReadRecords(t)
                    /\ Get(cache'[tasks[t].path]).mtime_ms = tasks[t].mtime_ms
                    /\ Get(cache'[tasks[t].path]).loaded_at = now
               ELSE cache' = cache

\* C7: load returns the cached records without reading the file exactly when
\* skip_cache is false, the TTL is positive, an entry exists within the TTL
\* and the file's modification time is the entry's; in every other case it
\* reads the file and, when caching is enabled and skip_cache is false,
\* replaces the entry by the records and the modification time it found.
C7_CachePolicy == []C7_Result /\ [][C7_Refresh]_vars

\* one load was served from the cache; another found an entry and read the
\* file all the same (the entry had expired or the file had changed)
C7_Witness ==
    \E t, u \in Tasks :
        /\ Loaded(t) /\ tasks[t].src = "cache"
        /\ Loaded(u) /\ tasks[u].src = "file"
        /\ ~tasks[u].skip_cache /\ IsSome(tasks[u].start_cache)

\* C8: with a TTL of zero or less, load never populates the cache and never
\* answers from it: every load returns the records of the content it reads
\* from the file, a content the path held during the call.
C8_CacheDisabled ==
    _get_session_store_ttl_ms <= 0
        => /\ \A p \in AllPaths : cache[p] = None
           /\ \A t \in Tasks :
                  Loaded(t) =>
                      /\ tasks[t].src # "cache"
                      /\ Get(tasks[t].result).store = ReadRecords(t)
                      /\ tasks[t].result_ver >= tasks[t].start_ver
                      /\ tasks[t].result_ver <= disk[tasks[t].path].ver

\* with a TTL of zero or less, the two loads made after another writer has
\* changed the file both return the new content
C8_Witness ==
    /\ _get_session_store_ttl_ms <= 0
    /\ ext_writes = 1 /\ calls = 2
    /\ IsSome(intent["a"]) /\ parse_store(Get(intent["a"])) # EmptyStore
    /\ \A t \in Tasks :
           /\ Loaded(t) /\ ~tasks[t].skip_cache
           /\ tasks[t].src = "file"
           /\ Get(tasks[t].result).store = parse_store(Get(intent["a"]))

\* the records of the content a cache entry was read from
EntryRecords(entry) ==
    IF IsSome(entry.from) THEN parse_store(Get(entry.from)) ELSE EmptyStore

ValidRecords(content) ==
    IF content.kind # "object" THEN EmptyStore
    ELSE [k \in {k \in DOMAIN content.entries : content.entries[k].t = "entry"}
              |-> content.entries[k].rec]

\* C10: load never raises: it returns the empty map for a missing file, an
\* empty file and unparsable content, and for a parsable file every valid
\* record, with the records that fail validation left out.
C10_LoadTotal ==
    \A t \in Tasks :
        /\ tasks[t].pc # "raised"
        /\ (tasks[t].op = "load" /\ tasks[t].pc = "done") => IsSome(tasks[t].result)
        /\ (Loaded(t) /\ tasks[t].src = "missing")
               => Get(tasks[t].result).store = EmptyStore
        /\ (Loaded(t) /\ tasks[t].src = "file")
               => Get(tasks[t].result).store = ValidRecords(Get(tasks[t].seen))

\* What does hold: a load that returns, returns what the claim says.
ReturnsValidRecords ==
    \A t \in Tasks :
        /\ (tasks[t].op = "load" /\ tasks[t].pc = "done") => IsSome(tasks[t].result)
        /\ (Loaded(t) /\ tasks[t].src = "missing")
               => Get(tasks[t].result).store = EmptyStore
        /\ (Loaded(t) /\ tasks[t].src = "file")
               => Get(tasks[t].result).store = ValidRecords(Get(tasks[t].seen))

\* a save of task t has met an I/O error in its write or its rename
SaveFailed(t) == tasks[t].op \in {"save", "update"} /\ tasks[t].src = "OSError"

\* What does hold of save: an I/O error in the write of the temporary file
\* or in the rename ends the call with the exception.  The call never
\* returns normally, writes nothing after the error (no retry), and leaves
\* the file as it was.
SaveFailurePropagates ==
    \A t \in Tasks :
        SaveFailed(t)
            => /\ tasks[t].pc \in {"fail_remove", "fail_exit", "raised"}
               /\ tasks[t].wrote_ver = 0
               /\ tasks[t].pc = "raised" => ~InWriteSection(t)

Resolved(t) == tasks[t].op = "resolve" /\ tasks[t].pc \in {"done", "raised"}

route_input(t) == Get(tasks[t].input)

route_of(t) == Get(tasks[t].result)

field(obj, attr) == _get_attr(obj, attr, PyNone)

\* The tiers as the resolver's contract states them, for a binding's match
\* and an input.
has_predicate(m) ==
    truthy(field(m, "peer")) \/ truthy(field(m, "guild_id")) \/ truthy(field(m, "team_id"))

peer_equals(m, peer) ==
    /\ peer.t # "None"
    /\ truthy(field(m, "peer"))
    /\ lower(strip(or_empty(field(field(m, "peer"), "kind")))) = peer.kind
    /\ strip(or_empty(field(field(m, "peer"), "id"))) = peer.id
    /\ peer.id # <<>>

id_equals(value, id) == truthy(id) /\ strip(or_empty(value)) = strip(id.s)

is_wildcard(m) == strip(or_empty(field(m, "account_id"))) = s_star

TierLabels ==
    <<"binding.peer", "binding.peer.parent", "binding.guild", "binding.team",
      "binding.account", "binding.channel", "default">>

tier_matches(n, binding, input) ==
    LET m == field(binding, "match") IN
    CASE n = 1 -> peer_equals(m, normalized_peer(input.peer))
      [] n = 2 -> peer_equals(m, normalized_peer(input.parent_peer))
      [] n = 3 -> id_equals(field(m, "guild_id"), input.guild_id)
      [] n = 4 -> id_equals(field(m, "team_id"), input.team_id)
      [] n = 5 -> ~has_predicate(m) /\ ~is_wildcard(m)
      [] n = 6 -> ~has_predicate(m) /\ is_wildcard(m)
      [] OTHER -> TRUE

tier_fires(n, input) ==
    \/ n = Len(TierLabels)
    \/ \E i \in DOMAIN filtered_bindings(input) :
           tier_matches(n, filtered_bindings(input)[i], input)

first_tier(input) ==
    CHOOSE n \in DOMAIN TierLabels :
        tier_fires(n, input) /\ \A k \in 1..(n - 1) : ~tier_fires(k, input)

\* C12: the tiers are tried in the order peer, parent peer, guild, team,
\* account, channel wildcard, default: the route that a call returns has, as
\* matched_by, the label of the first tier in which a binding of the input's
\* channel and account matches.
C12_TierOrder ==
    \A t \in Tasks :
        (Resolved(t) /\ route_of(t).raised = "") =>
            route_of(t).matched_by = TierLabels[first_tier(route_input(t))]

\* what is left of C12 once no binding carries a peer
no_peer_binding(input) ==
    \A i \in DOMAIN input.cfg.bindings :
        ~truthy(field(field(input.cfg.bindings[i], "match"), "peer"))

TierOrderWithoutPeers ==
    \A t \in Tasks :
        (Resolved(t) /\ route_of(t).raised = "" /\ no_peer_binding(route_input(t))) =>
            route_of(t).matched_by = TierLabels[first_tier(route_input(t))]

\* C13: resolve_agent_route is total: whatever the configuration (agents or
\* none, bindings or none, with or without an account id, with a peer, a
\* guild or a team) and the input, the call returns a route and raises nothing.
C13_ResolveTotal ==
    \A t \in Tasks : tasks[t].op = "resolve" => tasks[t].pc # "raised"

\* the calls that raise are those of the two defects: a peer predicate that
\* is a mapping, an account id that is None
RaisesOnlyByDefect ==
    \A t \in Tasks :
        (Resolved(t) /\ route_of(t).raised # "") =>
            \E i \in DOMAIN filtered_bindings(route_input(t)) :
                LET m == field(filtered_bindings(route_input(t))[i], "match") IN
                \/ route_of(t).raised = "NameError" /\ field(m, "peer").t = "dict"
                \/ route_of(t).raised = "AttributeError"
                       /\ _get_attr(m, "account_id", PyStr(<<>>)).t = "None"

\* agent_scope.list_agent_ids: the ids of the configured agents
list_agent_ids(cfg) ==
    IF _list_agents_scope(cfg) = <<>> THEN {DEFAULT_AGENT_ID}
    ELSE { normalize_agent_id(field(_list_agents_scope(cfg)[i], "id")) :
               i \in DOMAIN _list_agents_scope(cfg) }

agent_as_claimed(input) ==
    LET d == decision(input)
        bound == normalize_agent_id(d.agent_id)
    IN IF d.matched_by # "default" /\ bound \in list_agent_ids(input.cfg)
       THEN bound
       ELSE resolve_default_agent_id(input.cfg)

\* C14: the agent of a returned route is the agent of the binding that
\* matched when that agent is configured, and the default agent when it is
\* not; an agent that is not configured is never returned.
C14_AgentExists ==
    \A t \in Tasks :
        (Resolved(t) /\ route_of(t).raised = "") =>
            /\ route_of(t).agent_id = agent_as_claimed(route_input(t))
            /\ route_of(t).agent_id \in list_agent_ids(route_input(t).cfg)

\* what is left of C14 for a list of agents given as mappings
agents_are_mappings(cfg) ==
    cfg.agents # <<>> /\ \A i \in DOMAIN cfg.agents : cfg.agents[i].t = "dict"

AgentExistsAmongMappings ==
    \A t \in Tasks :
        (Resolved(t) /\ route_of(t).raised = "" /\ agents_are_mappings(route_input(t).cfg)) =>
            /\ route_of(t).agent_id = agent_as_claimed(route_input(t))
            /\ route_of(t).agent_id \in list_agent_ids(route_input(t).cfg)

\* a list of structured agents: no binding ever reaches its agent
StructuredAgentsNeverFound ==
    \A t \in Tasks :
        (/\ Resolved(t) /\ route_of(t).raised = ""
         /\ route_input(t).cfg.agents # <<>>
         /\ \A i \in DOMAIN route_input(t).cfg.agents :
                route_input(t).cfg.agents[i].t = "object") =>
            route_of(t).agent_id = resolve_default_agent_id(route_input(t).cfg)

\* the scenario of C15: the one binding {support, telegram, "*"}, as a
\* structured object or as a mapping, no agent list, and the input
\* (telegram, bot1) with no peer, guild or team
Scenario15(input) ==
    /\ input.cfg.agents = <<>>
    /\ Len(input.cfg.bindings) = 1
    /\ LET binding == input.cfg.bindings[1]
           m == field(binding, "match")
       IN /\ field(binding, "agent_id") = PyStr(s_support)
          /\ field(m, "channel") = PyStr(s_telegram)
          /\ field(m, "account_id") = PyStr(s_star)
          /\ ~has_predicate(m)
    /\ input.channel = s_telegram
    /\ input.account_id = PyStr(s_bot1)
    /\ input.peer = PyNone
    /\ input.parent_peer = PyNone
    /\ input.guild_id = PyNone
    /\ input.team_id = PyNone

account_of(input) ==
    IF strip(or_empty(input.account_id)) = <<>> THEN DEFAULT_ACCOUNT_ID
    ELSE strip(or_empty(input.account_id))

channel_equals(m, input) ==
    /\ lower(strip(or_empty(field(m, "channel")))) # <<>>
    /\ lower(strip(or_empty(field(m, "channel")))) = lower(strip(input.channel))

account_matches(m, input) ==
    LET pattern == strip(or_empty(field(m, "account_id"))) IN
    CASE pattern = s_star -> TRUE
      [] pattern = <<>> -> account_of(input) = DEFAULT_ACCOUNT_ID
      [] OTHER -> pattern = account_of(input)

takes_part(binding, input) ==
    /\ truthy(field(binding, "match"))
    /\ channel_equals(field(binding, "match"), input)
    /\ account_matches(field(binding, "match"), input)

bindings_taking_part(input) ==
    LET test(binding) == takes_part(binding, input)
    IN SelectSeq(input.cfg.bindings, test)

only_taking_part(input) ==
    [input EXCEPT !.cfg.bindings = bindings_taking_part(input)]

\* C16: the bindings that take part in a resolution are those whose channel
\* is the input's channel and whose account id matches the input's account:
\* "*" every account, an empty or absent one the default account only, any
\* other the same account only.  The result of the call is the one the call
\* gives with no other binding in the configuration.
C16_Filter ==
    \A t \in Tasks :
        Resolved(t) =>
            /\ filtered_bindings(route_input(t)) = bindings_taking_part(route_input(t))
            /\ route_of(t) = resolve_agent_route(only_taking_part(route_input(t)))

C16_Witness ==
    /\ Resolved(1)
    /\ route_of(1).matched_by = "binding.account"
    /\ route_of(1).account_id = s_bot1
    /\ Len(route_input(1).cfg.bindings) = MaxBindings
    /\ Len(bindings_taking_part(route_input(1))) = 1
    /\ \E i \in DOMAIN route_input(1).cfg.bindings :
           LET m == field(route_input(1).cfg.bindings[i], "match") IN
           /\ channel_equals(m, route_input(1))
           /\ ~account_matches(m, route_input(1))
           /\ ~has_predicate(m)

\* ---------------------------------------------------------------- merge
Merged(t) == tasks[t].op = "merge" /\ tasks[t].pc = "done"

merge_args(t) == Get(tasks[t].input)

merged_entry(t) == Get(tasks[t].result)

\* the updated_at values a merge has before it
times_of(args) ==
    {args.now_ms}
    \cup (IF args.existing # None THEN {Get(args.existing).updated_at} ELSE {})
    \cup (IF has_key(args.patch, "updated_at") THEN {args.patch["updated_at"]} ELSE {})

\* C17: a merge never moves time backward: the updated_at of the result is
\* the largest of the existing record's, the patch's and the current time,
\* so it is never below the one the record had, whatever the patch carries
\* and wherever the clock stands.
C17_UpdatedAtMax ==
    \A t \in Tasks :
        Merged(t) =>
            /\ merged_entry(t).updated_at \in times_of(merge_args(t))
            /\ \A u \in times_of(merge_args(t)) : merged_entry(t).updated_at >= u
            /\ merge_args(t).existing # None =>
                   merged_entry(t).updated_at >= Get(merge_args(t).existing).updated_at

\* a second merge, with an older updated_at in the patch and the clock
\* behind the record
C17_Witness ==
    /\ Merged(1)
    /\ calls = MaxMerges
    /\ merge_args(1).existing # None
    /\ has_key(merge_args(1).patch, "updated_at")
    /\ merge_args(1).patch["updated_at"] < Get(merge_args(1).existing).updated_at
    /\ merge_args(1).now_ms < Get(merge_args(1).existing).updated_at
    /\ merged_entry(1).updated_at = Get(merge_args(1).existing).updated_at

\* the patch gives a session id
gives_id(patch) == has_key(patch, "session_id") /\ patch["session_id"] # ""

\* C18: the session_id of the result is the patch's when the patch gives
\* one, else the existing record's, else a generated one; a merge into an
\* existing record whose patch gives none leaves the session_id as it was.
C18_SessionId ==
    \A t \in Tasks :
        Merged(t) =>
            LET args == merge_args(t) IN
            /\ gives_id(args.patch) => merged_entry(t).session_id = args.patch["session_id"]
            /\ (~gives_id(args.patch) /\ args.existing # None) =>
                   merged_entry(t).session_id = Get(args.existing).session_id
            /\ (~gives_id(args.patch) /\ args.existing = None) =>
                   merged_entry(t).session_id = args.uuid4 /\ args.uuid4 \in Uuids

\* a generated id is kept by the next merge
C18_Witness ==
    /\ Merged(1)
    /\ calls = MaxMerges
    /\ merge_args(1).existing # None
    /\ ~has_key(merge_args(1).patch, "session_id")
    /\ merged_entry(1).session_id \in Uuids

\* the value of the key "from" or "from_" of an origin given as a dict
from_of(value) ==
    IF value = None THEN None
    ELSE Some([from_ |-> IF has_key(Get(value), "from") THEN Get(value)["from"]
                         ELSE Get(value)["from_"]])

\* C19: every field other than session_id and updated_at has the patch's
\* value when the patch has the field and the existing record's when it has
\* not; without an existing record a field the patch does not have is None.
C19_PatchOverExisting ==
    \A t \in Tasks :
        Merged(t) =>
            LET args == merge_args(t)
                kept(k) == IF args.existing # None THEN Get(args.existing)[k] ELSE None
            IN /\ merged_entry(t).label =
                      (IF has_key(args.patch, "label") THEN args.patch["label"]
                       ELSE kept("label"))
               /\ merged_entry(t).input_tokens = kept("input_tokens")
               /\ merged_entry(t).origin =
                      (IF has_key(args.patch, "origin") THEN from_of(args.patch["origin"])
                       ELSE kept("origin"))

C19_Witness ==
    /\ Merged(1)
    /\ merge_args(1).existing # None
    /\ Get(merge_args(1).existing).label = Some("old")
    /\ Get(merge_args(1).existing).origin # None
    /\ DOMAIN merge_args(1).patch = {"label", "unknown_key"}
    /\ merged_entry(1).label = Some("new")
    /\ merged_entry(1).origin = Get(merge_args(1).existing).origin
    /\ merged_entry(1).input_tokens = Some(50)

same_but_updated_at(a, b) ==
    /\ a.session_id = b.session_id
    /\ a.label = b.label
    /\ a.input_tokens = b.input_tokens
    /\ a.origin = b.origin
    /\ a.updated_at >= b.updated_at

\* C20: merging the empty patch into the result of a merge gives the same
\* record, but for an updated_at that may be later; so it is for the merge
\* recomputed at every time, and for the merges of the empty patch made.
C20_RoundTrip ==
    \A t \in Tasks :
        Merged(t) =>
            /\ \A c \in MergeClocks, u \in Uuids :
                   same_but_updated_at(
                       merge_session_entry(tasks[t].result, EmptyPatch, c * 1000, u),
                       merged_entry(t))
            /\ (merge_args(t).patch = EmptyPatch /\ merge_args(t).existing # None) =>
                   same_but_updated_at(merged_entry(t), Get(merge_args(t).existing))

\* the second merge is the one of the empty patch, into a record with an
\* origin, at a later time
C20_Witness ==
    /\ Merged(1)
    /\ calls = MaxMerges
    /\ merge_args(1).patch = EmptyPatch
    /\ merge_args(1).existing # None
    /\ merged_entry(1).origin # None
    /\ merged_entry(1).label = Some("new")
    /\ merged_entry(1).updated_at > Get(merge_args(1).existing).updated_at

\* ------------------------------------------------------------------ C21
LastCall(t) == Get(tasks[t].result)

Maintained(t, op) == tasks[t].op = "maintain" /\ LastCall(t).op = op

keys_of(d) == Range(d.order)

\* the age a call of prune asks for: the argument, or the default of 30 days
age_asked(arg) == IF IsSome(arg) THEN Get(arg) ELSE DEFAULT_SESSION_PRUNE_AFTER_MS

\* the keys of the entries older than now - max_age
older_than(d, max_age, t_now) == {k \in keys_of(d) : d.at[k].updated_at < t_now - max_age}

\* the call removed exactly the keys of `gone`, left the other entries and
\* their order as they were, and returned the number of keys removed
removed_exactly(call, gone) ==
    /\ keys_of(call.after) = keys_of(call.before) \ gone
    /\ call.after.order = select(call.before.order, keys_of(call.after))
    /\ \A k \in keys_of(call.after) : call.after.at[k] = call.before.at[k]
    /\ call.returned = Cardinality(gone)

\* C21: for every map and every non-negative max_age_ms, prune_stale_entries
\* removes exactly the entries whose updated_at is older than now - max_age_ms,
\* leaves all other entries unchanged, and returns the number of entries removed.
C21_PruneExact ==
    \A t \in Tasks :
        Maintained(t, "prune") =>
            LET call == LastCall(t)
            IN removed_exactly(call, older_than(call.before, age_asked(call.arg), call.at))

\* what holds of the code: the same, for every max_age_ms but 0
PruneExactButZero ==
    \A t \in Tasks :
        Maintained(t, "prune") /\ LastCall(t).arg # Some(0) =>
            LET call == LastCall(t)
            IN removed_exactly(call, older_than(call.before, age_asked(call.arg), call.at))

\* and with max_age_ms = 0 the entries older than the default age go
PruneZeroIsDefault ==
    \A t \in Tasks :
        Maintained(t, "prune") /\ LastCall(t).arg = Some(0) =>
            LET call == LastCall(t)
            IN removed_exactly(call, older_than(call.before,
                                                DEFAULT_SESSION_PRUNE_AFTER_MS, call.at))

\* a call with a positive max_age_ms that removes an entry and keeps another
PruneRemovesSome ==
    \E t \in Tasks :
        /\ Maintained(t, "prune")
        /\ IsSome(LastCall(t).arg) /\ Get(LastCall(t).arg) > 0
        /\ LastCall(t).returned > 0
        /\ len(LastCall(t).after) > 0

\* ------------------------------------------------------------------ C22
min(a, b) == IF a <= b THEN a ELSE b

\* the number of entries a call of cap asks for: the argument, or the default
count_asked(arg) == IF IsSome(arg) THEN Get(arg) ELSE DEFAULT_SESSION_MAX_ENTRIES

dropped(call) == keys_of(call.before) \ keys_of(call.after)

\* the call left `n` entries, none of them older than a dropped one, and the
\* kept records are the records as they were
capped_to(call, n) ==
    /\ len(call.after) = min(len(call.before), n)
    /\ keys_of(call.after) \subseteq keys_of(call.before)
    /\ \A k \in keys_of(call.after), j \in dropped(call) :
           call.before.at[k].updated_at >= call.before.at[j].updated_at
    /\ \A k \in keys_of(call.after) : call.after.at[k] = call.before.at[k]

\* C22: for every map and every max_entries given, cap_entry_count leaves
\* min(size, max_entries) entries, every kept entry has updated_at greater than
\* or equal to that of every dropped entry, kept records are unchanged, and
\* prune_stale_entries followed by cap_entry_count never increases the entry
\* count.
C22_CapKeepsNewest ==
    \A t \in Tasks :
        Maintained(t, "cap") =>
            LET call == LastCall(t)
            IN /\ capped_to(call, count_asked(call.arg))
               /\ call.prev_op = "prune" => len(call.after) <= call.prev_len

\* what holds of the code: the same, for every max_entries but 0; the call
\* returns the number of entries dropped, and among entries of the same
\* updated_at it keeps the ones inserted first
CapKeepsNewestButZero ==
    \A t \in Tasks :
        Maintained(t, "cap") =>
            LET call == LastCall(t)
                pos(k) == CHOOSE i \in 1..len(call.before) : call.before.order[i] = k
            IN /\ call.arg # Some(0) => capped_to(call, count_asked(call.arg))
               /\ call.arg = Some(0) => capped_to(call, DEFAULT_SESSION_MAX_ENTRIES)
               /\ call.prev_op = "prune" => len(call.after) <= call.prev_len
               /\ call.returned = Cardinality(dropped(call))
               /\ call.after.order = select(call.before.order, keys_of(call.after))
               /\ \A k \in keys_of(call.after), j \in dropped(call) :
                      call.before.at[k].updated_at = call.before.at[j].updated_at
                          => pos(k) < pos(j)

\* a call of cap after a call of prune that removed an entry, which drops one
\* of two entries of the same updated_at
CapAfterPrune ==
    \E t \in Tasks :
        /\ Maintained(t, "cap")
        /\ LastCall(t).prev_op = "prune"
        /\ LastCall(t).prev_len > len(LastCall(t).before)
        /\ \E k \in keys_of(LastCall(t).after), j \in dropped(LastCall(t)) :
               LastCall(t).before.at[k].updated_at = LastCall(t).before.at[j].updated_at

\* ------------------------------------------------------------------ C23
Rotated(t) == tasks[t].op = "rotate" /\ tasks[t].pc = "done"

rotate_args(t) == Get(tasks[t].input)

\* the size the call compares the file with: max_bytes, or the default
bytes_asked(max_bytes) ==
    IF IsSome(max_bytes) THEN Get(max_bytes) ELSE DEFAULT_SESSION_ROTATE_BYTES

\* the file the call found is there and larger than max_bytes
larger_than(file, max_bytes) ==
    IsSome(file.data) /\ st_size(Get(file.data)) > bytes_asked(max_bytes)

\* the call of task t, made on a file to be rotated when `rotate` holds, did
\* what rotate is to do
rotates_as(t, rotate) ==
    LET args == rotate_args(t)
        path == tasks[t].path
    IN IF rotate
       THEN /\ tasks[t].result = Some(TRUE)
            /\ disk[path].data = None
            /\ tasks[t].timestamp_ms \in args.baks \cup baks[path]
            /\ baks[path] = newest(args.baks \cup {tasks[t].timestamp_ms}, max_backups)
            /\ Cardinality(baks[path]) <= 3
       ELSE /\ tasks[t].result = Some(FALSE)
            /\ disk[path] = args.file
            /\ baks[path] = args.baks

no_cleanup_pending == \A t \in Tasks : tasks[t].pc # "rotate_cleanup"

\* task t returns from a call of rotate in this step
Returns(t) == tasks[t].pc # "done" /\ tasks'[t].op = "rotate" /\ tasks'[t].pc = "done"

\* C23: rotate on a missing file or a file not larger than max_bytes returns
\* false and leaves the file and the existing backups untouched; on a file
\* larger than max_bytes it renames the file to <name>.bak.<epoch-millis>,
\* returns true, and afterwards at most 3 backups of that file exist, the most
\* recent ones; over any sequence of rotations the backup count never exceeds 3.
C23_Rotate ==
    /\ [][\A t \in Tasks :
              Returns(t) => rotates_as(t, larger_than(rotate_args(t).file,
                                                      rotate_args(t).max_bytes))']_vars
    /\ [](no_cleanup_pending => \A p \in AllPaths : Cardinality(baks[p]) <= 3)

\* max_bytes, with 0 read as "not given"
zero_as_none(max_bytes) == IF max_bytes = Some(0) THEN None ELSE max_bytes

\* what holds of the code: the same with max_bytes = 0 read as the default
RotateButZero ==
    /\ [][\A t \in Tasks :
              Returns(t) =>
                  rotates_as(t, larger_than(rotate_args(t).file,
                                            zero_as_none(rotate_args(t).max_bytes)))']_vars
    /\ [](no_cleanup_pending => \A p \in AllPaths : Cardinality(baks[p]) <= 3)

\* a rotation that found three backups, added a fourth and removed the oldest
FourthBackup ==
    \E t \in Tasks :
        /\ Rotated(t)
        /\ tasks[t].result = Some(TRUE)
        /\ Cardinality(rotate_args(t).baks) = 3
        /\ tasks[t].timestamp_ms \notin rotate_args(t).baks
        /\ Cardinality(baks[tasks[t].path]) = 3

\* a call that found a file of exactly max_bytes and returned false
NotLarger ==
    \E t \in Tasks :
        /\ Rotated(t)
        /\ tasks[t].result = Some(FALSE)
        /\ rotate_args(t).max_bytes = Some(7)
        /\ IsSome(rotate_args(t).file.data)

\* ------------------------------------------------------------------ C24
KeyBuilt(t, fn) ==
    /\ tasks[t].op = "keys"
    /\ tasks[t].pc = "done"
    /\ Get(tasks[t].result).args.fn = fn

key_args(t) == Get(tasks[t].result).args

key_of(t) == Get(tasks[t].result).returned

\* the segments of a key: <id>, <channel>, <accountId>, <peerIdOrUnknown>
id_segment(a) == normalize_agent_id(PyStr(a.agent_id))

channel_segment(a) == or_unknown(lower(strip(a.channel)))

account_segment(a) == normalize_account_id(a.account_id)

peer_or_unknown(a) == lower(or_unknown(strip(or_empty(a.peer_id))))

\* <resolvedPeerId>: the peer id, or the canonical identity linked to it
resolved_peer(a) ==
    LET peer_id == strip(or_empty(a.peer_id))
        linked == _resolve_linked_peer_id(a.identity_links, a.channel, peer_id)
    IN lower(IF truthy(linked) THEN linked.s ELSE peer_id)

\* a peer kind that is absent or empty stands for "direct"
is_direct(a) == ~truthy(a.peer_kind) \/ a.peer_kind = PyStr(s_direct)

main_key_of(a) == build_agent_main_session_key(PyStr(a.agent_id), a.main_key)

group_key(a) ==
    join(<<s_agent, id_segment(a), channel_segment(a), a.peer_kind.s, peer_or_unknown(a)>>)

\* the key of a direct peer `peer` under the dm_scope of the call
direct_key(a, peer) ==
    CASE a.dm_scope = "main" -> main_key_of(a)
      [] a.dm_scope = "per-peer" -> join(<<s_agent, id_segment(a), s_direct, peer>>)
      [] a.dm_scope = "per-channel-peer" ->
             join(<<s_agent, id_segment(a), channel_segment(a), s_direct, peer>>)
      [] a.dm_scope = "per-account-channel-peer" ->
             join(<<s_agent, id_segment(a), channel_segment(a), account_segment(a),
                    s_direct, peer>>)

\* C24 as stated: build_agent_peer_session_key returns
\* agent:<id>:<channel>:<peerKind>:<peerIdOrUnknown> for every non-direct peer
\* kind regardless of dm_scope; for a direct peer it returns the main key
\* under dm_scope main, agent:<id>:direct:<peer> under per-peer,
\* agent:<id>:<channel>:direct:<peer> under per-channel-peer, and
\* agent:<id>:<channel>:<accountId>:direct:<peer> under
\* per-account-channel-peer.
C24_PeerKeyShapes ==
    \A t \in Tasks :
        KeyBuilt(t, "peer") =>
            LET a == key_args(t)
            IN key_of(t) = IF is_direct(a) THEN direct_key(a, resolved_peer(a))
                           ELSE group_key(a)

\* C24, amended: the same, where a direct peer has a peer id; a direct peer
\* without a peer id gets the main key under every dm_scope.
C24_PeerKeyShapesWithPeerId ==
    \A t \in Tasks :
        KeyBuilt(t, "peer") =>
            LET a == key_args(t)
            IN key_of(t) = IF ~is_direct(a) THEN group_key(a)
                           ELSE IF resolved_peer(a) = <<>> THEN main_key_of(a)
                           ELSE direct_key(a, resolved_peer(a))

\* keys of a direct peer with a peer id under per-account-channel-peer, and of
\* a direct peer without a peer id under per-peer
C24_Witness ==
    \E t \in Tasks :
        /\ KeyBuilt(t, "peer")
        /\ key_args(t).peer_kind = PyStr(s_direct)
        /\ key_args(t).dm_scope = "per-account-channel-peer"
        /\ key_args(t).peer_id = PyStr(s_U7)
        /\ key_args(t).account_id = PyStr(s_bot1_padded)
        /\ key_args(t).identity_links = <<>>
        /\ Len(split(key_of(t))) = 6
        /\ split(key_of(t))[4] = s_bot1

NoPeerId ==
    \E t \in Tasks :
        /\ KeyBuilt(t, "peer")
        /\ key_args(t).peer_kind = PyStr(s_direct)
        /\ key_args(t).dm_scope = "per-peer"
        /\ key_args(t).peer_id = PyStr(s_empty)
        /\ key_of(t) = main_key_of(key_args(t))

\* ------------------------------------------------------------------ C25
peer_id_of(a) == strip(or_empty(a.peer_id))

\* the forms under which a peer may be listed: its id and channel:id
forms_of(a) == {lower(peer_id_of(a)), lower(strip(a.channel)) \o <<":">> \o lower(peer_id_of(a))}

aliases_of(link) == {lower(strip(link.ids[i])) : i \in 1..Len(link.ids)}

\* the entries of the identity-link table that list the peer of the call
links_listing(a) ==
    {i \in 1..Len(a.identity_links) :
        /\ strip(a.identity_links[i].canonical) # <<>>
        /\ aliases_of(a.identity_links[i]) \cap forms_of(a) # {}}

is_linked(a) ==
    /\ is_direct(a)
    /\ a.dm_scope # "main"
    /\ peer_id_of(a) # <<>>
    /\ links_listing(a) # {}

\* the canonical identity of the call's peer: of the first entry that lists it
canonical_of(a) ==
    LET first == CHOOSE i \in links_listing(a) : \A j \in links_listing(a) : i <= j
    IN lower(strip(a.identity_links[first].canonical))

\* C25: for a direct peer under any dm_scope other than main, when the
\* identity-link table lists the peer id or its channel:peer_id form as an
\* alias of a canonical identity, the session key carries the canonical
\* identity instead of the peer id, so two channel identities linked to the
\* same canonical identity resolve to the same per-peer session key.
C25_LinkedIdentity ==
    \A t \in Tasks :
        KeyBuilt(t, "peer") /\ is_linked(key_args(t)) =>
            LET a == key_args(t)
                before == Get(tasks[t].result).before
            IN /\ key_of(t) = direct_key(a, canonical_of(a))
               /\ ( /\ IsSome(before)
                    /\ a.dm_scope = "per-peer"
                    /\ is_linked(Get(before).args)
                    /\ canonical_of(Get(before).args) = canonical_of(a) )
                  => Get(before).returned = key_of(t)

s_agent_main_direct_alice == join(<<s_agent, s_main, s_direct, s_alice>>)

\* link alice <- telegram:42, DISCORD:u7: peer " U7 " on discord and then peer
\* 42 on telegram both give agent:main:direct:alice
C25_Witness ==
    \E t \in Tasks :
        /\ KeyBuilt(t, "peer")
        /\ key_args(t).dm_scope = "per-peer"
        /\ key_args(t).agent_id = s_main
        /\ key_args(t).channel = s_telegram
        /\ key_args(t).peer_id = PyStr(s_42)
        /\ key_args(t).peer_kind = PyStr(s_direct)
        /\ key_args(t).identity_links = <<IdentityLink(s_alice, <<s_telegram_42, s_DISCORD_u7>>)>>
        /\ key_of(t) = s_agent_main_direct_alice
        /\ IsSome(Get(tasks[t].result).before)
        /\ Get(Get(tasks[t].result).before).args.channel = s_discord
        /\ Get(Get(tasks[t].result).before).args.peer_id = PyStr(s_U7)
        /\ Get(Get(tasks[t].result).before).returned = s_agent_main_direct_alice

\* ------------------------------------------------------------------ C26
parses(key) ==
    /\ parse_agent_session_key(PyStr(key)).t = "parsed"
    /\ classify_session_key_shape(PyStr(key)) = "agent"

\* C26: for every key k produced by build_agent_main_session_key or
\* build_agent_peer_session_key, for all agent ids, main keys, channels,
\* account ids, peer kinds, peer ids and dm_scopes, parse_agent_session_key(k)
\* succeeds and classify_session_key_shape(k) is "agent".
C26_BuiltKeysParse ==
    \A t \in Tasks :
        KeyBuilt(t, "main") \/ KeyBuilt(t, "peer") => parses(key_of(t))

\* a main key with a character that is no colon, or none at all
has_segment(main_key) == ~truthy(main_key) \/ \E i \in 1..Len(main_key.s) : main_key.s[i] # ":"

\* what holds of the code: the keys built with such a main key parse, and the
\* agent id parsed is the normalized agent id
BuiltKeysParseWithMainKey ==
    \A t \in Tasks :
        (KeyBuilt(t, "main") \/ KeyBuilt(t, "peer")) /\ has_segment(key_args(t).main_key) =>
            /\ parses(key_of(t))
            /\ parse_agent_session_key(PyStr(key_of(t))).agent_id = id_segment(key_args(t))

\* the keys that do not parse are main keys built around a main key of colons
UnparsedAreMainKeys ==
    \A t \in Tasks :
        (KeyBuilt(t, "main") \/ KeyBuilt(t, "peer")) /\ ~parses(key_of(t)) =>
            /\ key_of(t) = main_key_of(key_args(t))
            /\ classify_session_key_shape(PyStr(key_of(t))) = "malformed_agent"

\* a peer key of six segments that parses
SixSegmentsParse ==
    \E t \in Tasks :
        /\ KeyBuilt(t, "peer")
        /\ Len(split(key_of(t))) = 6
        /\ parses(key_of(t))

\* ------------------------------------------------------------------ C27
Normalized(t) == KeyBuilt(t, "normalize")

\* C27: normalize_agent_id is idempotent: for all agent-id strings s,
\* normalize_agent_id(normalize_agent_id(s)) = normalize_agent_id(s).
C27_NormalizeIdempotent ==
    \A t \in Tasks :
        Normalized(t) => normalize_agent_id(PyStr(key_of(t))) = key_of(t)

\* what holds of the code: the same for the strings of at most 64 characters
\* (blanks at the ends not counted)
IdempotentUpToMaxLen ==
    \A t \in Tasks :
        Normalized(t) /\ Len(strip(key_args(t).value)) <= MaxIdLen =>
            normalize_agent_id(PyStr(key_of(t))) = key_of(t)

\* a string of invalid characters between valid ones, normalized
CollapsedToDash ==
    \E t \in Tasks :
        /\ Normalized(t)
        /\ key_args(t).value = <<"B", "@", "7">>
        /\ key_of(t) = <<"b", "-", "7">>

\* ============================================ save, maintenance and reload
\* SpecSave: saves with and without maintenance and loads that bypass the
\* cache, against one store path whose file can grow past the rotation size
InitSave == Init /\ env_ttl = ""

\* a step of a save, or of a load that bypasses the cache, in progress
SaveStep(t) ==
    \/ load_stat(t)
    \/ load_read(t)
    \/ load_stat2(t)
    \/ load_finish(t)
    \/ save_enter(t)
    \/ rotate_stat(t)
    \/ rotate_rename(t)
    \/ rotate_cleanup(t)
    \/ write_tmp(t)
    \/ rename(t)
    \/ chmod(t)
    \/ save_exit(t)

NextSave ==
    \/ \E t \in Tasks : SaveLarge(t, "a")
    \/ \E t \in Tasks : load_session_store(t, "a", TRUE)
    \/ \E t \in Tasks : SaveStep(t)
    \/ tick

SpecSave == InitSave /\ [][NextSave]_vars

\* the save of task t is between its call and its return
Saving(t) == tasks[t].op = "save" /\ tasks[t].pc \notin {"idle", "done", "raised"}

\* the dict the save was called with
saved_input(t) == Get(tasks[t].input)

\* lines 387-388 on a dict, at time t0: prune, then cap, with the defaults
maintained(store, t0) ==
    cap_entry_count(prune_stale_entries(store, None, t0), None)

\* the dict of the save is its input after pruning and capping (at a time
\* of this run)
was_maintained(t) ==
    \E t0 \in StartClock..now : tasks[t].store = maintained(saved_input(t), t0)

\* the save is inside rotate_session_file (line 391)
InRotate(t) ==
    Saving(t) /\ tasks[t].pc \in {"rotate_stat", "rotate_rename", "rotate_cleanup"}

\* the save has renamed its file in and still holds the lock of the path:
\* the file at the path is the one this save wrote
HasWritten(t) == tasks[t].op = "save" /\ tasks[t].pc \in {"chmod", "save_exit"}

\* what holds of a save in every state
SaveOrder(t) ==
    LET tk == tasks[t]
    IN /\ InRotate(t) => /\ ~tk.skip_maintenance
                         /\ was_maintained(t)
                         /\ tk.tmp = None
                         /\ tk.wrote_ver = 0
       /\ HasWritten(t) =>
             /\ disk[tk.path].data = Some(json_dumps(tk.store))
             /\ IF tk.skip_maintenance
                THEN tk.store = saved_input(t) /\ tk.timestamp_ms = 0
                ELSE was_maintained(t)

\* what holds of every step of a save: from the lock a save with
\* maintenance goes to the rotation and a save without goes to the write;
\* the write begins nowhere else than there or at the return of the
\* rotation; a save without maintenance changes neither its dict nor the
\* backups
SaveSteps(t) ==
    LET tk == tasks[t]
        after == tasks'[t]
    IN (Saving(t) /\ after # tk) =>
          /\ tk.pc = "save_lock" =>
                after.pc = IF tk.skip_maintenance THEN "write_tmp" ELSE "rotate_stat"
          /\ after.pc = "write_tmp" =>
                IF tk.skip_maintenance THEN tk.pc = "save_lock" ELSE InRotate(t)
          /\ tk.skip_maintenance =>
                /\ after.store = tk.store
                /\ baks' = baks
                /\ rotated' = rotated

\* load l bypassed the cache, began after save s had returned, and nothing
\* has been written to the path since that save's rename
FollowingLoad(s, l) ==
    /\ tasks[s].op = "save" /\ tasks[s].pc = "done"
    /\ Loaded(l) /\ tasks[l].skip_cache
    /\ tasks[l].path = tasks[s].path
    /\ tasks[l].after_ver = tasks[s].wrote_ver
    /\ disk[tasks[s].path].ver = tasks[s].wrote_ver

ReloadedUnpruned ==
    \E s, l \in Tasks :
        /\ FollowingLoad(s, l) /\ tasks[s].skip_maintenance
        /\ \E k \in DOMAIN saved_input(s) : saved_input(s)[k] = RecStale
        /\ Get(tasks[l].result).store = saved_input(s)

\* ------------------------------------------ bindings that carry a predicate
\* the binding carries a peer, guild or team predicate and none of them
\* matches the input (tiers 1 to 4 as the contract states them)
unmatched_predicate(binding, input) ==
    /\ has_predicate(field(binding, "match"))
    /\ \A n \in 1..4 : ~tier_matches(n, binding, input)

\* the input with those bindings taken out of its configuration
without_unmatched(input) ==
    LET keep(binding) == ~unmatched_predicate(binding, input)
    IN [input EXCEPT !.cfg.bindings = SelectSeq(@, keep)]

carries_unmatched(input) ==
    \E i \in DOMAIN filtered_bindings(input) :
        unmatched_predicate(filtered_bindings(input)[i], input)

\* C29: a binding with a peer, guild or team predicate that does not match
\* the input is skipped in tiers 5 and 6 although its channel and account
\* id match: it gives no account match and no channel-wildcard match, and
\* the call goes on to the later bindings or to the default, so its outcome
\* is the one of the configuration without that binding.
C29_PredicateBindingsSkipped ==
    \A t \in Tasks :
        Resolved(t) =>
            route_of(t) = resolve_agent_route(without_unmatched(route_input(t)))

\* what does hold: a call that returns a route returns the route of the
\* configuration without those bindings
SkippedWhenReturning ==
    \A t \in Tasks :
        (Resolved(t) /\ route_of(t).raised = "") =>
            route_of(t) = resolve_agent_route(without_unmatched(route_input(t)))

\* and every call that ends otherwise than without them raises
RaisesWhereNotSkipped ==
    \A t \in Tasks :
        (/\ Resolved(t)
         /\ route_of(t) # resolve_agent_route(without_unmatched(route_input(t))))
            => route_of(t).raised \in {"AttributeError", "NameError"}

\* reachable: a binding of the input's account with a guild that is not the
\* input's is passed over, and a later binding gives the account match
SkippedForLater ==
    \E t \in Tasks :
        /\ Resolved(t) /\ route_of(t).matched_by = "binding.account"
        /\ unmatched_predicate(filtered_bindings(route_input(t))[1], route_input(t))
        /\ ~is_wildcard(field(filtered_bindings(route_input(t))[1], "match"))

\* reachable: such a binding is the only one, and the call ends with an
\* exception where the configuration without it gives the default route
RaisedInsteadOfSkipping ==
    \E t \in Tasks :
        /\ Resolved(t) /\ route_of(t).raised = "AttributeError"
        /\ carries_unmatched(route_input(t))
        /\ resolve_agent_route(without_unmatched(route_input(t))).matched_by = "default"

\* ------------------------------------------------- first match in a tier
\* the bindings of the input's channel and account that match in tier n, by
\* their place in the configuration
matching_in(n, input) ==
    { i \in DOMAIN filtered_bindings(input) :
          tier_matches(n, filtered_bindings(input)[i], input) }

\* the earliest of them
earliest_in(n, input) ==
    CHOOSE i \in matching_in(n, input) : \A j \in matching_in(n, input) : i <= j

\* the agent a route gets from the earliest matching binding of the first
\* tier that matches (the default agent when no tier does), once the agent
\* list has been consulted
agent_of_earliest(input) ==
    LET n == first_tier(input)
        bound == IF n = Len(TierLabels)
                 THEN PyStr(resolve_default_agent_id(input.cfg))
                 ELSE _get_attr(filtered_bindings(input)[earliest_in(n, input)],
                                "agent_id", PyStr(<<>>))
    IN _pick_first_existing_agent_id(input.cfg, bound)

first_match_wins(t) ==
    /\ route_of(t).matched_by = TierLabels[first_tier(route_input(t))]
    /\ route_of(t).agent_id = agent_of_earliest(route_input(t))

\* C30: the route that a call returns is decided by the highest-priority
\* tier in which a binding matches, wherever in the configuration that
\* binding stands, and within that tier by the earliest matching binding:
\* the route has that binding's agent.
C30_FirstMatchWins ==
    \A t \in Tasks :
        (Resolved(t) /\ route_of(t).raised = "") => first_match_wins(t)

\* what is left of C30 once no binding carries a peer
FirstMatchWithoutPeers ==
    \A t \in Tasks :
        (Resolved(t) /\ route_of(t).raised = "" /\ no_peer_binding(route_input(t)))
            => first_match_wins(t)

\* reachable: two bindings with different agents match in the winning tier
\* and the route has the agent of the first
EarlierOfTwo ==
    \E t \in Tasks :
        LET input == route_input(t)
            n == first_tier(input)
            fb == filtered_bindings(input)
        IN /\ Resolved(t) /\ route_of(t).raised = ""
           /\ matching_in(n, input) = {1, 2}
           /\ field(fb[1], "agent_id") # field(fb[2], "agent_id")
           /\ input.cfg.agents = <<>>
           /\ route_of(t).agent_id = normalize_agent_id(field(fb[1], "agent_id"))
           /\ route_of(t).agent_id # normalize_agent_id(field(fb[2], "agent_id"))

\* reachable: the binding of the lower tier stands first in the
\* configuration and the later binding of the higher tier decides
HigherTierStandsLater ==
    \E t \in Tasks :
        LET input == route_input(t)
            fb == filtered_bindings(input)
        IN /\ Resolved(t) /\ route_of(t).matched_by = "binding.guild"
           /\ Len(fb) = 2
           /\ tier_matches(6, fb[1], input)
           /\ tier_matches(3, fb[2], input)
           /\ input.cfg.agents = <<>>
           /\ route_of(t).agent_id = normalize_agent_id(field(fb[2], "agent_id"))
           /\ route_of(t).agent_id # normalize_agent_id(field(fb[1], "agent_id"))

\* reachable: a binding whose structured peer equals the input's peer
\* stands in the configuration, and the route is an account match
LowerTierOverPeer ==
    \E t \in Tasks :
        /\ Resolved(t) /\ route_of(t).matched_by \in {"binding.account", "binding.channel"}
        /\ first_tier(route_input(t)) = 1

\* ======================================================= key utilities
s_thread_infix == <<":", "t", "h", "r", "e", "a", "d", ":">>

ThreadKeys(session_key, parent_session_key) ==
    [session_key |-> session_key, parent_session_key |-> parent_session_key]

\* mutant of resolve_thread_session_keys: the parent key is handed back
\* whether or not there is a thread
resolve_thread_session_keys_parent_always(base_session_key, thread_id, parent_session_key, use_suffix) ==
    LET thread_id_trimmed == strip(or_empty(thread_id))
    IN IF thread_id_trimmed # <<>> /\ use_suffix
       THEN ThreadKeys(base_session_key \o s_thread_infix \o lower(thread_id_trimmed),
                       parent_session_key)
       ELSE ThreadKeys(base_session_key, parent_session_key)

\* session_key.py, lines 474-509
resolve_thread_session_keys(base_session_key, thread_id, parent_session_key, use_suffix) ==
    LET thread_id_trimmed == strip(or_empty(thread_id))
        normalized_thread_id == lower(thread_id_trimmed)
    IN IF thread_id_trimmed = <<>>
       THEN ThreadKeys(base_session_key, PyNone)
       ELSE ThreadKeys(IF use_suffix
                       THEN base_session_key \o s_thread_infix \o normalized_thread_id
                       ELSE base_session_key,
                       parent_session_key)

\* ------------------------------------------------------ session kind tests
s_subagent == <<"s", "u", "b", "a", "g", "e", "n", "t">>
s_acp == <<"a", "c", "p">>
s_cron == <<"c", "r", "o", "n">>
s_run == <<"r", "u", "n">>
s_task == <<"t", "a", "s", "k">>
s_daily == <<"d", "a", "i", "l", "y">>

\* re.match(r"^cron:[^:]+:run:[^:]+$", rest)
cron_run_pattern(rest) ==
    LET parts == split(rest)
    IN /\ Len(parts) = 4
       /\ parts[1] = s_cron
       /\ parts[2] # <<>>
       /\ parts[3] = s_run
       /\ parts[4] # <<>>

\* key_utils.py, lines 62-84
is_cron_run_session_key(session_key) ==
    LET parsed == parse_agent_session_key(session_key)
    IN IF parsed.t # "parsed" THEN FALSE ELSE cron_run_pattern(parsed.rest)

\* the body that is_subagent_session_key and is_acp_session_key share
\* (lines 87-121 and 124-159), for their prefix
has_kind_prefix(session_key, prefix) ==
    LET raw == strip(or_empty(session_key))
        parsed == parse_agent_session_key(PyStr(raw))
    IN IF raw = <<>> THEN FALSE
       ELSE IF startswith(lower(raw), prefix) THEN TRUE
       ELSE IF parsed.t = "parsed" THEN startswith(lower(parsed.rest), prefix)
       ELSE FALSE

is_subagent_session_key(session_key) == has_kind_prefix(session_key, s_subagent \o <<":">>)

is_acp_session_key(session_key) == has_kind_prefix(session_key, s_acp \o <<":">>)

\* str.upper, str.capitalize
upper_char(c) ==
    IF c \in Range(LowerLetters)
    THEN UpperLetters[CHOOSE i \in 1..Len(LowerLetters) : LowerLetters[i] = c]
    ELSE c

upper(s) == [i \in 1..Len(s) |-> upper_char(s[i])]

capitalize(s) == [i \in 1..Len(s) |-> IF i = 1 THEN upper_char(s[i]) ELSE s[i]]

\* keys by their segments, and the ways of writing the tokens subagent,
\* acp, cron and run in them
KindTokens == {s_subagent, s_acp, s_cron, s_run}
CaseStyles == {"lower", "upper", "capitalized"}

KindKeySegments ==
    { <<s_subagent, s_task>>,
      <<s_agent, s_main, s_subagent, s_task>>,
      <<s_acp, s_task>>,
      <<s_agent, s_main, s_acp, s_task>>,
      <<s_agent, s_main, s_cron, s_daily, s_run, s_42>>,
      <<s_agent, s_main, s_cron, s_daily, s_run>>,
      <<s_agent, s_main, s_cron, s_daily, s_task, s_42>>,
      <<s_cron, s_daily, s_run, s_42>>,
      <<s_agent, s_main, s_main>>,
      <<s_agent, s_subagent>> }

in_style(segment, style) ==
    IF segment \notin KindTokens THEN segment
    ELSE CASE style = "upper" -> upper(segment)
           [] style = "capitalized" -> capitalize(segment)
           [] OTHER -> segment

key_in_style(segments, style) ==
    join([i \in 1..Len(segments) |-> in_style(segments[i], style)])

KindArgs ==
    [fn : {"kinds"}, segments : KindKeySegments, style : CaseStyles, other_style : CaseStyles]

\* the three answers for one key
KindsOf(session_key) ==
    [subagent |-> is_subagent_session_key(session_key),
     acp |-> is_acp_session_key(session_key),
     cron_run |-> is_cron_run_session_key(session_key)]

\* the caller asks the three predicates about a key and about the same key
\* with its tokens written in another case
AskKinds(t) ==
    /\ Calls(t, "kinds")
    /\ LET a == Get(tasks[t].input)
           key == PyStr(key_in_style(a.segments, a.style))
           variant == PyStr(key_in_style(a.segments, a.other_style))
       IN Returned(t, a, [key |-> key, variant |-> variant,
                          of_key |-> KindsOf(key), of_variant |-> KindsOf(variant)],
                   None)

\* ------------------------------------------------------ key utility inputs

s_agent_main_main == s_agent \o <<":">> \o s_main \o <<":">> \o s_main
s_Agent_Main_Group == <<"A", "g", "e", "n", "t", ":", "M", "a", "i", "n", ":", "g", ":", "4", "2">>
s_T1_padded == <<" ", "T", "1", " ">>
s_blank == <<" ", " ">>

ThreadBaseKeys == {s_agent_main_main, s_Agent_Main_Group}
ThreadIds == {PyNone, PyStr(s_empty), PyStr(s_blank), PyStr(s_42), PyStr(s_T1_padded)}
ThreadParentKeys == {PyNone, PyStr(s_empty), PyStr(s_agent_main_main), PyStr(s_Agent_Main_Group)}

ThreadArgs ==
    [fn : {"thread"}, base_session_key : ThreadBaseKeys, thread_id : ThreadIds,
     parent_session_key : ThreadParentKeys, use_suffix : BOOLEAN]

\* keys to classify: none, empty, blank, agent keys (plain, padded, with
\* empty segments), keys with the prefix that do not parse, the prefix in
\* another case, and keys without it
ClassifyKeys ==
    { PyNone, PyStr(s_empty), PyStr(s_blank),
      PyStr(s_agent_main_main),
      PyStr(<<" ">> \o s_agent_main_main \o <<" ">>),
      PyStr(<<":">> \o s_agent_main_main),
      PyStr(s_agent \o <<":">> \o s_main \o <<":">> \o s_subagent \o <<":">> \o s_task),
      PyStr(s_agent \o <<":">> \o s_main),
      PyStr(s_agent \o <<":">> \o s_main \o <<":">>),
      PyStr(s_agent \o <<":", ":">>),
      PyStr(s_agent \o <<":", " ", ":">> \o s_main),
      PyStr(<<" ">> \o s_agent \o <<":">> \o s_main),
      PyStr(upper(s_agent) \o <<":">> \o s_main \o <<":">> \o s_main),
      PyStr(s_Agent_Main_Group),
      PyStr(capitalize(s_agent) \o <<":">>),
      PyStr(s_agent),
      PyStr(s_agent \o <<"s", ":">> \o s_main \o <<":">> \o s_main),
      PyStr(s_subagent \o <<":">> \o s_task),
      PyStr(s_main) }

ClassifyArgs == [fn : {"classify"}, session_key : ClassifyKeys]

\* ids to normalize: every string of up to three of the characters of
\* IdChars and the long s, and the strings of more than 64 characters
NormalizeIdStrings ==
    UNION {[1..n -> IdChars \cup CaseFoldsToAscii] : n \in 0..MaxShortId} \cup LongIds

NormalizeIdsArgs == [fn : {"normalize_ids"}, value : NormalizeIdStrings]

KeyUtilArgs == ThreadArgs \cup KindArgs \cup ClassifyArgs \cup NormalizeIdsArgs

\* ------------------------------------------------------------ SpecKeyUtils
\* One caller applies one of the key utilities to the arguments it holds.
InitKeyUtils ==
    /\ now = StartClock
    /\ env_ttl = ""
    /\ ext_writes = 0
    /\ calls = 0
    /\ disk = [p \in AllPaths |-> [data |-> None, ver |-> 0]]
    /\ intent = [p \in AllPaths |-> None]
    /\ baks = [p \in AllPaths |-> {}]
    /\ cache = [p \in AllPaths |-> None]
    /\ locks = [k \in {} |-> FALSE]
    /\ \E a \in KeyUtilArgs :
           tasks = [t \in Tasks |->
                       IF t = 1 THEN [IdleTask EXCEPT !.op = "keys", !.input = Some(a)]
                       ELSE IdleTask]
    /\ completed = [p \in AllPaths |-> 0]
    /\ rotated = [p \in AllPaths |-> 0]

ResolveThread(t) ==
    /\ Calls(t, "thread")
    /\ LET a == Get(tasks[t].input)
       IN Returned(t, a, resolve_thread_session_keys(a.base_session_key, a.thread_id,
                                                     a.parent_session_key, a.use_suffix),
                   None)

Classify(t) ==
    /\ Calls(t, "classify")
    /\ LET a == Get(tasks[t].input)
       IN Returned(t, a, classify_session_key_shape(a.session_key), None)

\* the caller normalizes a string as an agent id and as an account id
NormalizeIds(t) ==
    /\ Calls(t, "normalize_ids")
    /\ LET a == Get(tasks[t].input)
       IN Returned(t, a, [agent_id |-> normalize_agent_id(PyStr(a.value)),
                          account_id |-> normalize_account_id(PyStr(a.value))],
                   None)

NextKeyUtils ==
    \/ \E t \in Tasks : ResolveThread(t)
    \/ \E t \in Tasks : AskKinds(t)
    \/ \E t \in Tasks : Classify(t)
    \/ \E t \in Tasks : NormalizeIds(t)

SpecKeyUtils == InitKeyUtils /\ [][NextKeyUtils]_vars

\* ---------------------------------------------------------- thread keys
\* the call of `fn` by task t has returned
UtilReturned(t, fn) ==
    tasks[t].op = "keys" /\ tasks[t].pc = "done" /\ Get(tasks[t].input).fn = fn

util_args(t) == Get(tasks[t].result).args
util_result(t) == Get(tasks[t].result).returned

\* C31 as claimed: base key + ":thread:" + the lower-cased thread id when a
\* thread id is given and use_suffix is set, the base key otherwise; the
\* parent key of the result is the parent_session_key argument in every case.
C31_ThreadKeys ==
    \A t \in Tasks :
        UtilReturned(t, "thread") =>
            LET a == util_args(t) IN
            /\ util_result(t).session_key =
                   IF truthy(a.thread_id) /\ a.use_suffix
                   THEN a.base_session_key \o s_thread_infix \o lower(a.thread_id.s)
                   ELSE a.base_session_key
            /\ util_result(t).parent_session_key = a.parent_session_key

\* the thread id of a call, trimmed; empty when none is given
thread_of(a) == strip(or_empty(a.thread_id))

\* C31: with a thread id that is not blank, the key is the base key +
\* ":thread:" + the trimmed, lower-cased thread id when use_suffix is set
\* and the base key otherwise, and the parent key is the
\* parent_session_key argument unmodified; without a thread id (None, empty
\* or blank) the key is the base key and the parent key is None.
C31_ThreadKeysOfThreads ==
    \A t \in Tasks :
        UtilReturned(t, "thread") =>
            LET a == util_args(t) IN
            IF thread_of(a) # <<>>
            THEN /\ util_result(t).session_key =
                        IF a.use_suffix
                        THEN a.base_session_key \o s_thread_infix \o lower(thread_of(a))
                        ELSE a.base_session_key
                 /\ util_result(t).parent_session_key = a.parent_session_key
            ELSE /\ util_result(t).session_key = a.base_session_key
                 /\ util_result(t).parent_session_key = PyNone

\* reachable: a thread of a group with a parent key, the suffix lower-cased
\* and the base and parent keys left in their case
C31_Witness ==
    \E t \in Tasks :
        /\ UtilReturned(t, "thread")
        /\ util_args(t).thread_id = PyStr(s_T1_padded)
        /\ util_args(t).parent_session_key = PyStr(s_Agent_Main_Group)
        /\ util_result(t) =
               ThreadKeys(s_Agent_Main_Group \o s_thread_infix \o <<"t", "1">>,
                          PyStr(s_Agent_Main_Group))

\* reachable: no thread id, and the parent key given is not handed back
ParentDropped ==
    \E t \in Tasks :
        /\ UtilReturned(t, "thread")
        /\ util_args(t).thread_id = PyNone
        /\ util_args(t).parent_session_key = PyStr(s_agent_main_main)
        /\ util_result(t).parent_session_key = PyNone

\* C32: is_subagent_session_key, is_acp_session_key and
\* is_cron_run_session_key do not depend on the letter case of the tokens
\* subagent, acp, cron and run: each gives the same answer for a key and for
\* the key with these tokens in another case.
C32_KindsIgnoreCase ==
    \A t \in Tasks :
        UtilReturned(t, "kinds") => util_result(t).of_key = util_result(t).of_variant

\* what does hold: the subagent and acp tests do not depend on the case
PrefixKindsIgnoreCase ==
    \A t \in Tasks :
        UtilReturned(t, "kinds") =>
            /\ util_result(t).of_key.subagent = util_result(t).of_variant.subagent
            /\ util_result(t).of_key.acp = util_result(t).of_variant.acp

\* and the cron run test holds of no key whose cron or run is not in lower case
CronRunOnlyLowerCase ==
    \A t \in Tasks :
        (UtilReturned(t, "kinds") /\ util_result(t).of_key.cron_run) =>
            util_args(t).style = "lower"

\* reachable: a subagent key in upper case is a subagent key
UpperCaseSubagent ==
    \E t \in Tasks :
        /\ UtilReturned(t, "kinds")
        /\ util_args(t).style = "upper" /\ util_args(t).other_style = "lower"
        /\ util_result(t).of_key.subagent /\ util_result(t).of_variant.subagent
        /\ Len(util_args(t).segments) = 4

\* reachable: a cron run key is one in lower case and none in upper case
UpperCaseCronRun ==
    \E t \in Tasks :
        /\ UtilReturned(t, "kinds")
        /\ util_args(t).style = "upper"
        /\ ~util_result(t).of_key.cron_run /\ util_result(t).of_variant.cron_run

\* C33 as claimed: one label for every input: missing for an empty or blank
\* key (or none), agent exactly when parse_agent_session_key succeeds,
\* malformed_agent when the string starts with "agent:" and the parse fails,
\* legacy_or_alias otherwise.
C33_ClassifyShape ==
    \A t \in Tasks :
        UtilReturned(t, "classify") =>
            LET key == util_args(t).session_key IN
            util_result(t) =
                IF strip(or_empty(key)) = <<>> THEN "missing"
                ELSE IF parse_agent_session_key(key).t = "parsed" THEN "agent"
                ELSE IF startswith(key.s, s_agent \o <<":">>) THEN "malformed_agent"
                ELSE "legacy_or_alias"

SessionKeyShapes == {"missing", "agent", "malformed_agent", "legacy_or_alias"}

\* C33: one label for every input, and the call hands back nothing but the
\* label: missing for an empty or blank key (or none), agent exactly when
\* parse_agent_session_key succeeds, malformed_agent when the trimmed key
\* starts with "agent:" in any letter case and the parse fails,
\* legacy_or_alias otherwise.
C33_ClassifyTrimmedShape ==
    \A t \in Tasks :
        UtilReturned(t, "classify") =>
            LET key == util_args(t).session_key IN
            /\ util_result(t) \in SessionKeyShapes
            /\ util_args(t) = Get(tasks[t].input)
            /\ util_result(t) =
                   IF strip(or_empty(key)) = <<>> THEN "missing"
                   ELSE IF parse_agent_session_key(key).t = "parsed" THEN "agent"
                   ELSE IF startswith(lower(strip(key.s)), s_agent \o <<":">>)
                   THEN "malformed_agent"
                   ELSE "legacy_or_alias"

\* reachable: every label is given, and malformed_agent to a key that has
\* the prefix in upper case
C33_Witness ==
    \E t \in Tasks :
        /\ UtilReturned(t, "classify")
        /\ util_args(t).session_key = PyStr(upper(s_agent) \o <<":">> \o s_main \o <<":">> \o s_main)
        /\ util_result(t) = "malformed_agent"

LabelGiven(label) == \E t \in Tasks : UtilReturned(t, "classify") /\ util_result(t) = label

MissingGiven == LabelGiven("missing")
AgentGiven == LabelGiven("agent")
LegacyGiven == LabelGiven("legacy_or_alias")

\* ------------------------------------------------------------ normalized ids
IdCharset == Range(LowerLetters) \cup DigitChars \cup {"_", "-"}

\* a non-empty string of at most 64 characters of [a-z0-9_-] that neither
\* starts nor ends with "-"
well_formed_id(s) ==
    /\ s # <<>>
    /\ Len(s) <= MaxIdLen
    /\ \A i \in 1..Len(s) : s[i] \in IdCharset
    /\ s[1] # "-"
    /\ s[Len(s)] # "-"

\* C34: whatever the input, normalize_agent_id and normalize_account_id
\* return their default id or a non-empty string of at most 64 characters
\* of [a-z0-9_-] that neither starts nor ends with "-".
C34_NormalizedIdsWellFormed ==
    \A t \in Tasks :
        UtilReturned(t, "normalize_ids") =>
            /\ util_result(t).agent_id = DEFAULT_AGENT_ID \/ well_formed_id(util_result(t).agent_id)
            /\ util_result(t).account_id = DEFAULT_ACCOUNT_ID
                   \/ well_formed_id(util_result(t).account_id)

ascii(s) == \A i \in 1..Len(s) : s[i] \notin CaseFoldsToAscii

\* what does hold: for an input of at most 64 ASCII characters
WellFormedOfShortAscii ==
    \A t \in Tasks :
        (/\ UtilReturned(t, "normalize_ids")
         /\ ascii(util_args(t).value)
         /\ Len(util_args(t).value) <= MaxIdLen) =>
            /\ util_result(t).agent_id = DEFAULT_AGENT_ID \/ well_formed_id(util_result(t).agent_id)
            /\ util_result(t).account_id = DEFAULT_ACCOUNT_ID
                   \/ well_formed_id(util_result(t).account_id)

\* and for every input the result is not empty and has at most 64 characters
NormalizedIdsBounded ==
    \A t \in Tasks :
        UtilReturned(t, "normalize_ids") =>
            /\ util_result(t).agent_id # <<>> /\ Len(util_result(t).agent_id) <= MaxIdLen
            /\ util_result(t).account_id # <<>> /\ Len(util_result(t).account_id) <= MaxIdLen

\* reachable: the long s is accepted as a letter and handed back
LongSKept ==
    \E t \in Tasks :
        /\ UtilReturned(t, "normalize_ids")
        /\ util_args(t).value = <<"U+017F">>
        /\ util_result(t).agent_id = <<"U+017F">>
        /\ util_result(t).account_id = <<"U+017F">>

\* reachable: a result cut at 64 characters ends with a dash
CutAtDash ==
    \E t \in Tasks :
        /\ UtilReturned(t, "normalize_ids")
        /\ Len(util_result(t).account_id) = MaxIdLen
        /\ util_result(t).account_id[MaxIdLen] = "-"

\* reachable: invalid characters collapsed, dashes trimmed, a well-formed id
CollapsedAndTrimmed ==
    \E t \in Tasks :
        /\ UtilReturned(t, "normalize_ids")
        /\ util_args(t).value = <<"@", "B", " ">>
        /\ util_result(t).agent_id = <<"b">>

\* ================================================ sessions/memory_store.py
\* AcpSession (lines 12-20); active_run_id and abort_event are None or Some
AcpSession(session_id, session_key, cwd, created_at, active_run_id, abort_event) ==
    [session_id |-> session_id, session_key |-> session_key, cwd |-> cwd,
     created_at |-> created_at, active_run_id |-> active_run_id,
     abort_event |-> abort_event]

\* InMemorySessionStore (lines 30-34): its two dicts, and beside them the
\* asyncio.Event objects that have been set
MemoryStore(sessions, runs, set_events) ==
    [_sessions |-> sessions, _run_id_to_session_id |-> runs, set_events |-> set_events]

NoSessions == [s \in {} |-> AcpSession("", "", "", 0, None, None)]
NoRuns == [r \in {} |-> ""]

\* dict.get(key), dict.pop(key, None)
dict_get(d, key) == IF key \in DOMAIN d THEN Some(d[key]) ELSE None
dict_pop(d, key) == [k \in DOMAIN d \ {key} |-> d[k]]

\* what a call gives: the store after it and the value returned
StoreCall(store, returned) == [store |-> store, returned |-> returned]

\* session._replace(active_run_id=None, abort_event=None)
without_run(session) == [session EXCEPT !.active_run_id = None, !.abort_event = None]

\* lines 35-68; uuid is the id that uuid4 gives when none is passed
create_session(m, session_key, cwd, session_id, uuid, created_at) ==
    LET sid == IF IsSome(session_id) /\ Get(session_id) # "" THEN Get(session_id) ELSE uuid
        session == AcpSession(sid, session_key, cwd, created_at, None, None)
    IN StoreCall([m EXCEPT !._sessions = put(@, sid, session)], Some(session))

\* lines 82-95
get_session_by_run_id(m, run_id) ==
    LET session_id == dict_get(m._run_id_to_session_id, run_id)
    IN StoreCall(m, IF IsSome(session_id) /\ Get(session_id) # ""
                    THEN dict_get(m._sessions, Get(session_id))
                    ELSE None)

\* lines 97-121
set_active_run(m, session_id, run_id, abort_event) ==
    LET session == dict_get(m._sessions, session_id)
    IN IF ~IsSome(session) THEN StoreCall(m, None)
       ELSE StoreCall([m EXCEPT
                !._sessions = put(@, session_id,
                                  [Get(session) EXCEPT !.active_run_id = Some(run_id),
                                                       !.abort_event = Some(abort_event)]),
                !._run_id_to_session_id = put(@, run_id, session_id)], None)

\* lines 123-141
clear_active_run(m, session_id) ==
    LET session == dict_get(m._sessions, session_id)
    IN IF ~IsSome(session) THEN StoreCall(m, None)
       ELSE StoreCall([m EXCEPT
                !._run_id_to_session_id =
                    IF IsSome(Get(session).active_run_id) /\ Get(Get(session).active_run_id) # ""
                    THEN dict_pop(@, Get(Get(session).active_run_id)) ELSE @,
                !._sessions = put(@, session_id, without_run(Get(session)))], None)

\* mutant of cancel_active_run: the run stays in the index
cancel_active_run_keeps_index(m, session_id) ==
    LET session == dict_get(m._sessions, session_id)
    IN IF ~IsSome(session) \/ ~IsSome(Get(session).abort_event) THEN StoreCall(m, FALSE)
       ELSE StoreCall([m EXCEPT
                !.set_events = @ \cup {Get(Get(session).abort_event)},
                !._sessions = put(@, session_id, without_run(Get(session)))], TRUE)

\* lines 143-170; an asyncio.Event is true whether set or not
cancel_active_run(m, session_id) ==
    LET session == dict_get(m._sessions, session_id)
    IN IF ~IsSome(session) \/ ~IsSome(Get(session).abort_event) THEN StoreCall(m, FALSE)
       ELSE StoreCall([m EXCEPT
                !.set_events = @ \cup {Get(Get(session).abort_event)},
                !._run_id_to_session_id =
                    IF IsSome(Get(session).active_run_id) /\ Get(Get(session).active_run_id) # ""
                    THEN dict_pop(@, Get(Get(session).active_run_id)) ELSE @,
                !._sessions = put(@, session_id, without_run(Get(session)))], TRUE)

\* ------------------------------------------------------------- SpecMemory
\* The callers of one InMemorySessionStore.  Every method runs inside
\* `async with self._lock` and awaits nothing there, so a call is one step
\* and the calls of concurrent tasks come one after the other in any order.
\* The task holds the store (input) and the last call (result).
SessionIds == {"s1", "s2"}
RunIds == {"r1", "r2"}
AbortEvents == {"e1", "e2"}
MaxStoreCalls == 5

EmptyMemoryStore == MemoryStore(NoSessions, NoRuns, {})

NoStoreCall ==
    [op |-> "none", session_id |-> "", run_id |-> "", returned |-> None,
     before |-> EmptyMemoryStore, after |-> EmptyMemoryStore]

InitMemory ==
    /\ now = StartClock
    /\ env_ttl = ""
    /\ ext_writes = 0
    /\ calls = 0
    /\ disk = [p \in AllPaths |-> [data |-> None, ver |-> 0]]
    /\ intent = [p \in AllPaths |-> None]
    /\ baks = [p \in AllPaths |-> {}]
    /\ cache = [p \in AllPaths |-> None]
    /\ locks = [k \in {} |-> FALSE]
    /\ tasks = [t \in Tasks |->
                   IF t = 1 THEN [IdleTask EXCEPT !.op = "memory_store",
                                                  !.input = Some(EmptyMemoryStore),
                                                  !.result = Some(NoStoreCall)]
                   ELSE IdleTask]
    /\ completed = [p \in AllPaths |-> 0]
    /\ rotated = [p \in AllPaths |-> 0]

StoreCalled(t, op, session_id, run_id, call) ==
    LET tk == tasks[t]
    IN /\ tk.op = "memory_store"
       /\ calls < MaxStoreCalls
       /\ calls' = calls + 1
       /\ SetTask(t, [tk EXCEPT
              !.pc = "done",
              !.input = Some(call.store),
              !.result = Some([op |-> op, session_id |-> session_id, run_id |-> run_id,
                               returned |-> call.returned,
                               before |-> Get(tk.input), after |-> call.store])])
       /\ UNCHANGED <<now, env_ttl, ext_writes, disk, intent, baks, cache, locks,
                      completed, rotated>>

memory_of(t) == Get(tasks[t].input)

\* create_session with an id given (which may be in use) or generated (never in use)
CreateSession(t, session_id) ==
    /\ tasks[t].op = "memory_store"
    /\ \E uuid \in SessionIds :
           /\ ~IsSome(session_id) => uuid \notin DOMAIN memory_of(t)._sessions
           /\ IsSome(session_id) => uuid = Get(session_id)
           /\ StoreCalled(t, "create_session", uuid, "",
                          create_session(memory_of(t), "agent:main:test", "/home/user",
                                         session_id, uuid, now))

SetActiveRun(t, session_id, run_id, abort_event) ==
    /\ tasks[t].op = "memory_store"
    /\ StoreCalled(t, "set_active_run", session_id, run_id,
                   set_active_run(memory_of(t), session_id, run_id, abort_event))

ClearActiveRun(t, session_id) ==
    /\ tasks[t].op = "memory_store"
    /\ StoreCalled(t, "clear_active_run", session_id, "",
                   clear_active_run(memory_of(t), session_id))

CancelActiveRun(t, session_id) ==
    /\ tasks[t].op = "memory_store"
    /\ StoreCalled(t, "cancel_active_run", session_id, "",
                   cancel_active_run(memory_of(t), session_id))

GetSessionByRunId(t, run_id) ==
    /\ tasks[t].op = "memory_store"
    /\ StoreCalled(t, "get_session_by_run_id", "", run_id,
                   get_session_by_run_id(memory_of(t), run_id))

SessionIdArgs == {None} \cup {Some(s) : s \in SessionIds}

NextMemory ==
    \/ \E t \in Tasks, s \in SessionIdArgs : CreateSession(t, s)
    \/ \E t \in Tasks, s \in SessionIds, r \in RunIds, e \in AbortEvents :
           SetActiveRun(t, s, r, e)
    \/ \E t \in Tasks, s \in SessionIds : ClearActiveRun(t, s)
    \/ \E t \in Tasks, s \in SessionIds : CancelActiveRun(t, s)
    \/ \E t \in Tasks, r \in RunIds : GetSessionByRunId(t, r)

SpecMemory == InitMemory /\ [][NextMemory]_vars

\* ------------------------------------------------------------ cancellation
StoreCallDone(t, op) ==
    tasks[t].op = "memory_store" /\ tasks[t].pc = "done" /\ Get(tasks[t].result).op = op

store_call(t) == Get(tasks[t].result)

\* the session has an active run in store m
has_active_run(m, session_id) ==
    /\ session_id \in DOMAIN m._sessions
    /\ IsSome(m._sessions[session_id].active_run_id)

\* C35: cancel_active_run on a session with an active run sets the abort
\* event of that run, clears the session's active_run_id and abort_event,
\* takes the run id out of the run index and returns True; on an unknown
\* session or a session without an active run it returns False and changes
\* nothing.
C35_CancelActiveRun ==
    \A t \in Tasks :
        StoreCallDone(t, "cancel_active_run") =>
            LET c == store_call(t)
                sid == c.session_id
                session == c.before._sessions[sid]
            IN IF has_active_run(c.before, sid)
               THEN /\ c.returned = TRUE
                    /\ Get(session.abort_event) \in c.after.set_events
                    /\ c.after._sessions[sid].active_run_id = None
                    /\ c.after._sessions[sid].abort_event = None
                    /\ Get(session.active_run_id) \notin DOMAIN c.after._run_id_to_session_id
                    /\ \A s \in DOMAIN c.before._sessions \ {sid} :
                           c.after._sessions[s] = c.before._sessions[s]
                    /\ DOMAIN c.after._sessions = DOMAIN c.before._sessions
               ELSE /\ c.returned = FALSE
                    /\ c.after = c.before

\* reachable: a run is cancelled whose event was not set before, and the
\* other session keeps its run
C35_Witness ==
    \E t \in Tasks :
        /\ StoreCallDone(t, "cancel_active_run")
        /\ has_active_run(store_call(t).before, store_call(t).session_id)
        /\ store_call(t).returned = TRUE
        /\ store_call(t).before.set_events = {}
        /\ store_call(t).after.set_events # {}
        /\ \E s \in SessionIds : has_active_run(store_call(t).after, s)

\* reachable: a cancel of a session without a run, and of no session
CancelledNothing ==
    \E t \in Tasks :
        /\ StoreCallDone(t, "cancel_active_run")
        /\ store_call(t).session_id \in DOMAIN store_call(t).before._sessions
        /\ store_call(t).returned = FALSE

\* ----------------------------------------------------------- the run index
index_consistent(m) ==
    \A r \in DOMAIN m._run_id_to_session_id :
        LET sid == m._run_id_to_session_id[r]
        IN /\ sid \in DOMAIN m._sessions
           /\ m._sessions[sid].active_run_id = Some(r)

\* C36: after any sequence of create_session, set_active_run,
\* clear_active_run and cancel_active_run the run index agrees with the
\* sessions: every run id in it maps to an existing session whose
\* active_run_id is that run id, and get_session_by_run_id returns no
\* session that runs another run or none.
C36_RunIndexConsistent ==
    \A t \in Tasks :
        tasks[t].op = "memory_store" =>
            /\ index_consistent(memory_of(t))
            /\ StoreCallDone(t, "get_session_by_run_id") =>
                   \/ store_call(t).returned = None
                   \/ Get(store_call(t).returned).active_run_id = Some(store_call(t).run_id)

\* what does hold: the index names existing sessions only, and every
\* session with an abort event has a run and the other way round
IndexedSessionsExist ==
    \A t \in Tasks :
        tasks[t].op = "memory_store" =>
            LET m == memory_of(t) IN
            /\ \A r \in DOMAIN m._run_id_to_session_id :
                   m._run_id_to_session_id[r] \in DOMAIN m._sessions
            /\ \A s \in DOMAIN m._sessions :
                   IsSome(m._sessions[s].active_run_id) <=> IsSome(m._sessions[s].abort_event)

\* reachable: a run was replaced by another on its session, and the look-up
\* of the first run gives the session that runs the second
StaleRunFound ==
    \E t \in Tasks :
        /\ StoreCallDone(t, "get_session_by_run_id")
        /\ store_call(t).run_id = "r1"
        /\ IsSome(store_call(t).returned)
        /\ Get(store_call(t).returned).active_run_id = Some("r2")

\* ----------------------------------------------------------- cache entries
\* the records of the entry were read from the version of the file whose
\* modification time the entry holds; an entry without a modification time
\* was made when the path had no file
entry_coherent(e) ==
    IF IsSome(e.mtime_ms)
    THEN /\ Get(e.mtime_ms) = e.ver
         /\ IsSome(e.from)
         /\ e.store = parse_store(Get(e.from))
    ELSE e.store = EmptyStore

\* C37: in every interleaving of loads with saves and external writes, an
\* entry of the cache holds the records of the file version whose
\* modification time it records: it never pairs the content of one version
\* with the modification time of another.
C37_CacheCoherent ==
    \A p \in AllPaths : IsSome(cache[p]) => entry_coherent(Get(cache[p]))

\* reachable: an entry holds the records of an older version under the
\* modification time of the version that a save has put in its place
OldRecordsNewMtime ==
    \E p \in AllPaths :
        /\ IsSome(cache[p])
        /\ IsSome(Get(cache[p]).mtime_ms)
        /\ Get(cache[p]).ver < Get(Get(cache[p]).mtime_ms)
        /\ disk[p].ver = Get(Get(cache[p]).mtime_ms)
        /\ IsSome(disk[p].data)
        /\ Get(cache[p]).store # parse_store(Get(disk[p].data))

\* reachable: an entry that is coherent, filled from a file
CoherentEntry ==
    \E p \in AllPaths :
        /\ IsSome(cache[p])
        /\ IsSome(Get(cache[p]).mtime_ms)
        /\ entry_coherent(Get(cache[p]))

\* ------------------------------------------------------------ failed saves
\* task t does not hold the lock of its path: the lock is free, or another
\* task is inside its `async with`
lock_released(t) ==
    locks[_get_store_lock(tasks[t].path)]
        => \E u \in Tasks \ {t} :
               InWriteSection(u) /\ tasks[u].path = tasks[t].path

\* the save of task t met an I/O error and still holds the lock of its path
FailedInLock(t) ==
    /\ tasks[t].op = "save" /\ SaveFailed(t)
    /\ tasks[t].pc \in {"fail_remove", "fail_exit"}

\* the path holds the file that the save found there
path_as_found(t) ==
    /\ disk[tasks[t].path].ver = tasks[t].start_ver
    /\ IsSome(disk[tasks[t].path].data) = tasks[t].start_exists

\* C38: when a save, with or without maintenance, fails with an I/O error
\* in the write of the new content, the path still holds the content that
\* was persisted before (a later load returns it), no temporary file is
\* left, and the lock of the path is released.
C38_FailedSaveKeepsFile ==
    \A t \in Tasks :
        (tasks[t].op = "save" /\ SaveFailed(t)) =>
            /\ FailedInLock(t) => path_as_found(t)
            /\ tasks[t].pc \in {"fail_exit", "raised"} => tasks[t].tmp = None
            /\ tasks[t].pc = "raised" => lock_released(t)

\* what does hold: the same, for the saves that did not rotate the file
FailedSaveKeepsFileUnlessRotated ==
    \A t \in Tasks :
        (tasks[t].op = "save" /\ SaveFailed(t)) =>
            /\ (FailedInLock(t) /\ tasks[t].timestamp_ms = 0) => path_as_found(t)
            /\ (FailedInLock(t) /\ tasks[t].timestamp_ms # 0) =>
                   /\ ~tasks[t].skip_maintenance
                   /\ ~IsSome(disk[tasks[t].path].data)
            /\ tasks[t].pc \in {"fail_exit", "raised"} => tasks[t].tmp = None
            /\ tasks[t].pc = "raised" => lock_released(t)

\* reachable: a save with maintenance found a file, rotated it away and
\* failed: the path has no file
FailedAfterRotation ==
    \E t \in Tasks :
        /\ FailedInLock(t)
        /\ tasks[t].start_exists
        /\ ~IsSome(disk[tasks[t].path].data)

\* reachable: a save failed with part of the temporary file written, and
\* the path holds the file as found
FailedWithFileKept ==
    \E t \in Tasks :
        /\ FailedInLock(t) /\ tasks[t].pc = "fail_remove"
        /\ IsSome(tasks[t].tmp)
        /\ tasks[t].start_exists /\ path_as_found(t)

\* SpecMutator: loads that fill the cache, saves and updates against one
\* store path, with mutators that raise
InitMutator == Init /\ env_ttl = ""

NextMutator ==
    \/ \E t \in Tasks : load_session_store(t, "a", FALSE)
    \/ \E t \in Tasks : SaveLarge(t, "a")
    \/ \E t \in Tasks : Update(t, "a")
    \/ \E t \in Tasks : Step(t)
    \/ \E t \in Tasks : mutator_raises(t)

SpecMutator == InitMutator /\ [][NextMutator]_vars

\* ------------------------------------------------- update, mutator raises
\* the update of task t has ended with the exception of its mutator
MutatorRaised(t) ==
    tasks[t].op = "update" /\ tasks[t].pc = "raised" /\ tasks[t].src = "mutator_raised"

\* a step of the update of task t up to and including its call of the mutator
BeforeUpdateSaves(t) ==
    /\ tasks[t].op = "update"
    /\ tasks[t].pc \in {"update_lock", "load_stat", "load_read", "load_stat2",
                        "load_finish"}
    /\ tasks'[t] # tasks[t]

\* the step in which the mutator of task t raises
MutatorRaises(t) == ~MutatorRaised(t) /\ MutatorRaised(t)'

\* C39: when the mutator raises inside update, nothing is written: the
\* store file and the cache entry of the path are as they were, the
\* exception reaches the caller, and the lock of the path is released, so
\* that a later save or update on the path can go on.
C39_MutatorRaises ==
    /\ [](\A t \in Tasks :
              MutatorRaised(t) => /\ tasks[t].wrote_ver = 0
                                  /\ tasks[t].tmp = None
                                  /\ ~IsSome(tasks[t].result)
                                  /\ lock_released(t))
    /\ [][\A t \in Tasks :
              /\ BeforeUpdateSaves(t) =>
                     /\ disk' = disk /\ baks' = baks /\ cache' = cache
              /\ MutatorRaises(t) =>
                     /\ disk[tasks[t].path].ver = tasks[t].start_ver
                     /\ IsSome(disk[tasks[t].path].data) = tasks[t].start_exists
                     /\ ~locks'[_get_store_lock(tasks[t].path)]]_vars

\* reachable: the mutator raised in an update of a path that holds a file
\* and has a cache entry
C39_Witness ==
    \E t \in Tasks :
        /\ MutatorRaised(t)
        /\ tasks[t].start_exists
        /\ IsSome(cache[tasks[t].path])

\* reachable: after the mutator raised, a save of another task went on into
\* its write section on that path
LaterSaveGoesOn ==
    \E t \in Tasks, u \in Tasks :
        /\ MutatorRaised(t)
        /\ tasks[u].op = "save" /\ tasks[u].path = tasks[t].path
        /\ tasks[u].pc \in {"write_tmp", "rename", "chmod", "save_exit"}

\* reachable: after the mutator raised, an update of another task got the
\* lock of that path
LaterUpdateGoesOn ==
    \E t \in Tasks, u \in Tasks :
        /\ MutatorRaised(t)
        /\ tasks[u].op = "update" /\ tasks[u].path = tasks[t].path
        /\ tasks[u].pc \in {"load_stat", "load_read", "load_stat2", "load_finish"}

\* ================================================================ keys of a route
\* SpecRouteKeys: resolve_agent_route over the session configurations (every
\* DM scope, with and without identity links), direct and group peers, and
\* bound agent ids in mixed case and longer than MaxIdLen
s_U1 == <<"U", "1">>
s_long_agent == repeat("a", MaxIdLen - 1) \o <<"-", "b">>

WildcardBinding(agent_id) ==
    AgentBinding("object", PyStr(agent_id),
        AgentBindingMatch("object", PyStr(s_telegram), PyStr(s_star),
                          PyNone, PyNone, PyNone))

KeyRouteBindingLists ==
    { <<>>, <<WildcardBinding(s_Sales)>>, <<WildcardBinding(s_support)>>,
      <<WildcardBinding(s_long_agent)>> }

KeyRouteAgentLists ==
    { <<>>,
      << AgentConfig("dict", PyStr(s_Sales), KeyAbsent),
         AgentConfig("dict", PyStr(DEFAULT_AGENT_ID), KeyAbsent) >> }

KeyRouteSessions ==
    { PyNone } \cup { SessionConfig(s, l) : s \in DmScopes, l \in IdentityLinks }

KeyRoutePeers == { PyNone, RoutePeer(s_direct, s_U1), RoutePeer(s_group, s_g1) }

KeyRouteInputs ==
    { ResolveAgentRouteInput(OpenClawConfig(a, b, s), channel, account_id, peer,
                             PyNone, PyNone, PyNone) :
          a \in KeyRouteAgentLists, b \in KeyRouteBindingLists, s \in KeyRouteSessions,
          channel \in {s_telegram, s_Telegram},
          account_id \in {PyNone, PyStr(s_bot1)},
          peer \in KeyRoutePeers }

InitRouteKeys ==
    /\ now = StartClock
    /\ env_ttl = ""
    /\ ext_writes = 0
    /\ calls = 0
    /\ disk = [p \in AllPaths |-> [data |-> None, ver |-> 0]]
    /\ intent = [p \in AllPaths |-> None]
    /\ baks = [p \in AllPaths |-> {}]
    /\ cache = [p \in AllPaths |-> None]
    /\ locks = [k \in {} |-> FALSE]
    /\ \E i \in KeyRouteInputs :
           tasks = [t \in Tasks |->
                       IF t = 1 THEN [IdleTask EXCEPT !.op = "resolve", !.input = Some(i)]
                       ELSE IdleTask]
    /\ completed = [p \in AllPaths |-> 0]
    /\ rotated = [p \in AllPaths |-> 0]

SpecRouteKeys == InitRouteKeys /\ [][NextRoute]_vars

\* resolve has returned a route to task t
Routed(t) == Resolved(t) /\ route_of(t).raised = ""

dm_scope_of(input) ==
    IF input.cfg.session.t = "None" THEN "main" ELSE input.cfg.session.dm_scope

is_direct_peer(peer) == peer.t # "None" /\ peer.kind = s_direct

parses_to(key, agent_id) ==
    LET parsed == parse_agent_session_key(PyStr(key))
    IN parsed.t = "parsed" /\ parsed.agent_id = agent_id

\* the parts of the claim that do not compare the agent id of the route
\* with the one in the keys
keys_of_route(input, route) ==
    /\ parse_agent_session_key(PyStr(route.session_key)).t = "parsed"
    /\ parse_agent_session_key(PyStr(route.main_session_key)).t = "parsed"
    /\ lower(route.session_key) = route.session_key
    /\ lower(route.main_session_key) = route.main_session_key
    /\ route.main_session_key
           = build_agent_main_session_key(PyStr(route.agent_id), PyNone)
    /\ (dm_scope_of(input) = "main" /\ is_direct_peer(input.peer))
           => route.session_key = route.main_session_key

\* C40: for every route that resolve returns, the session key and the main
\* session key both parse, with the agent id of the route as their agent
\* id, both keys are in lower case, the main session key is
\* buildMain(agentId), and under the DM scope main the session key of a
\* direct peer is the main session key.
C40_RouteKeys ==
    \A t \in Tasks :
        Routed(t) =>
            /\ keys_of_route(route_input(t), route_of(t))
            /\ parses_to(route_of(t).session_key, route_of(t).agent_id)
            /\ parses_to(route_of(t).main_session_key, route_of(t).agent_id)

\* What does hold: the keys carry the agent id of the route normalized once
\* more, which is the agent id of the route whenever that is a well-formed id
RouteKeysOfNormalizedAgent ==
    \A t \in Tasks :
        Routed(t) =>
            LET route == route_of(t)
                again == normalize_agent_id(PyStr(route.agent_id))
            IN /\ keys_of_route(route_input(t), route)
               /\ parses_to(route.session_key, again)
               /\ parses_to(route.main_session_key, again)
               /\ well_formed_id(route.agent_id) => again = route.agent_id

\* reachable: a route whose agent id ends in a dash, with keys that carry
\* the id without it
RouteAgentNotInKeys ==
    \E t \in Tasks :
        /\ Routed(t)
        /\ route_of(t).agent_id[Len(route_of(t).agent_id)] = "-"
        /\ ~parses_to(route_of(t).main_session_key, route_of(t).agent_id)

\* reachable: a direct peer under the DM scope main, routed to a bound agent
\* whose id is written in mixed case, with the main session key as its key
DirectPeerOnMainKey ==
    \E t \in Tasks :
        /\ Routed(t)
        /\ is_direct_peer(route_input(t).peer)
        /\ route_input(t).cfg.session.t # "None"
        /\ dm_scope_of(route_input(t)) = "main"
        /\ route_of(t).matched_by = "binding.channel"
        /\ route_of(t).agent_id = lower(s_Sales)
        /\ route_of(t).session_key = route_of(t).main_session_key

\* reachable: a direct peer under another DM scope, with a key of its own
DirectPeerOnOwnKey ==
    \E t \in Tasks :
        /\ Routed(t)
        /\ is_direct_peer(route_input(t).peer)
        /\ dm_scope_of(route_input(t)) = "per-peer"
        /\ route_of(t).session_key # route_of(t).main_session_key
        /\ parses_to(route_of(t).session_key, route_of(t).agent_id)

====
